---- MODULE Spec2Model ----
(***************************************************************************)
(* Model of sunpm-utils: the duration formatter of the date package and   *)
(* the timing helpers of the promise package (retry, throttle).           *)
(*                                                                         *)
(* Numbers.  A JavaScript number holding a millisecond count is exact up  *)
(* to 2^53, but one year in milliseconds (31 536 000 000) is larger than  *)
(* the integers of the model checker.  A millisecond count is therefore   *)
(* written with two digits in base 1000, [sec |-> s, ms |-> r] standing   *)
(* for s * 1000 + r with r in 0..999, and the arithmetic of the source is *)
(* carried out exactly on that representation (operators W...).           *)
(*                                                                         *)
(* Strings.  A string is a sequence of one-character strings.  The CJK    *)
(* characters of the unit labels are written with their pinyin names:     *)
(* "nian" (year), "ge" "yue" (month, two characters), "tian" (day),       *)
(* "xiao" "shi" (hour), "fen" "zhong" (minute), "miao" (second).          *)
(***************************************************************************)
EXTENDS Integers, Sequences, FiniteSets, TLC

VARIABLES
    fdPc,        \* formatDuration: "call" before the call, "done" after it
    timestamp,   \* formatDuration: argument timestamp (signed milliseconds)
    format,      \* formatDuration: argument format (undefined or a string)
    result,      \* formatDuration: the returned value
    rPc,         \* retry: "idle", "fn" (awaiting fn()), "delay" (awaiting
                 \*        delay(delayMs)), "resolved", "rejected"
    retries,     \* retry: argument retries
    retryI,      \* retry: the loop counter i
    lastError,   \* retry: the variable lastError
    rOutcome,    \* retry: the value or the reason the returned promise settled with
    rCalls,      \* retry: the settled calls of fn, in order (history)
    delayMs,     \* retry: argument delayMs
    rWaited,     \* retry: the milliseconds gone by since delay(delayMs) was
                 \*        called
    rTrace,      \* retry: the calls of fn, their settlements and the waits,
                 \*        in the order they happened (history)
    now,         \* throttle: the clock, Date.now()
    wait,        \* throttle: argument wait
    lastCallTime,\* throttle: the variable lastCallTime
    timeoutId,   \* throttle: the pending timer (its due time) or undefined
    lastArgs,    \* throttle: the variable lastArgs
    events       \* throttle: the calls of the wrapper and the executions of
                 \*           fn, in the order they happened (history)

fdVars == <<fdPc, timestamp, format, result>>
retryVars ==
    <<rPc, retries, retryI, lastError, rOutcome, rCalls, delayMs, rWaited, rTrace>>
throttleVars == <<now, wait, lastCallTime, timeoutId, lastArgs, events>>

VARIABLES
    dbNow,        \* debounce: the clock
    dbWait,       \* debounce: argument wait
    dbTimeoutId,  \* debounce: the variable timeoutId (0 for undefined, else
                  \*           the number of the call that set the timer)
    dbTimers,     \* debounce: the timers set and neither cleared nor run
    dbRunning,    \* debounce: the calls whose awaited fn(...args) has not settled
    dbPromises,   \* debounce: the state of the promise returned to each call
    dbEvents      \* debounce: the calls of the wrapper and the executions of
                  \*           fn, in the order they happened (history)

debounceVars ==
    <<dbNow, dbWait, dbTimeoutId, dbTimers, dbRunning, dbPromises, dbEvents>>

VARIABLES
    tasks,        \* parallel: the number of tasks (tasks.length)
    limit,        \* parallel: argument limit
    currentIndex, \* parallel: the variable currentIndex
    results,      \* parallel: the array results
    workers,      \* parallel: what each worker() is doing
    pSettled,     \* parallel: how the returned promise settled, if it has
    pLog          \* parallel: the starts and the completions of the tasks,
                  \*           in the order they happened (history)

parallelVars == <<tasks, limit, currentIndex, results, workers, pSettled, pLog>>

VARIABLES
    sqTasks,      \* sequential: the number of tasks
    sqPc,         \* sequential: where the loop is
    sqResults,    \* sequential: the array results
    sqLog         \* sequential: the starts and the completions (history)

sequentialVars == <<sqTasks, sqPc, sqResults, sqLog>>

VARIABLES
    toNow,        \* timeout: the clock, counted from the call
    toMs,         \* timeout: argument ms
    toMessage,    \* timeout: argument message
    toPromise,    \* timeout: the state of the argument promise
    toTimer,      \* timeout: "set" or "run"
    toResult      \* timeout: the state of the returned promise

timeoutVars == <<toNow, toMs, toMessage, toPromise, toTimer, toResult>>

VARIABLES
    pfName,       \* a pure function: which one is called
    pfArgs,       \* a pure function: its arguments
    pfResult      \* a pure function: the returned value

pureVars == <<pfName, pfArgs, pfResult>>

VARIABLES
    dcPc,         \* deepClone: "call", "cloned", "changed"
    dcHeap,       \* deepClone: the objects, by address
    dcRoot,       \* deepClone: the argument obj
    dcClone,      \* deepClone: the returned value
    dcBefore      \* deepClone: the objects as they were at the call (history)

deepCloneVars == <<dcPc, dcHeap, dcRoot, dcClone, dcBefore>>

\* the state of the helpers modelled after formatDuration, retry and throttle
laterVars ==
    <<debounceVars, parallelVars, sequentialVars, timeoutVars, pureVars,
      deepCloneVars>>

-----------------------------------------------------------------------------
(* Bounds of the model *)

MaxDays == 1100      \* longest duration, in days, of the no-template runs
MaxLen == 3          \* longest enumerated template

-----------------------------------------------------------------------------
(* Exact arithmetic on millisecond counts *)

\* the millisecond count n (n small enough to be written directly)
W(n) == [sec |-> n \div 1000, ms |-> n % 1000]

\* k * w
WMul(k, w) ==
    [sec |-> k * w.sec + ((k * w.ms) \div 1000), ms |-> (k * w.ms) % 1000]

\* x % u, for a unit u that is a whole number of seconds
WMod(x, u) == [sec |-> x.sec % u.sec, ms |-> x.ms]

\* Math.floor(x / u), for a unit u that is a whole number of seconds
WFloorDiv(x, u) == x.sec \div u.sec

\* Math.max(t, 0) in the place of Math.abs
Abs_clamp(t) == IF t.neg THEN [sec |-> 0, ms |-> 0] ELSE [sec |-> t.sec, ms |-> t.ms]

\* Math.abs
Abs(t) == [sec |-> t.sec, ms |-> t.ms]

\* -t
Negate(t) == [neg |-> ~t.neg, sec |-> t.sec, ms |-> t.ms]

\* Math.round(x / u * 1000) / 1000 as [whole, milli]: whole + milli / 1000.
\* With x.sec = q * u.sec + r and r * 1000 = d * u.sec + r3 (three steps of
\* long division), x / u * 1000 = q * 1000 + d + (r3 + x.ms) / u.sec, and
\* Math.round takes the floor of that plus one half.
WRound3(x, u) ==
    LET q   == x.sec \div u.sec
        r   == x.sec % u.sec
        d1  == (r * 10) \div u.sec
        r1  == (r * 10) % u.sec
        d2  == (r1 * 10) \div u.sec
        r2  == (r1 * 10) % u.sec
        d3  == (r2 * 10) \div u.sec
        r3  == (r2 * 10) % u.sec
        d   == d1 * 100 + d2 * 10 + d3
        m   == d + ((2 * (r3 + x.ms) + u.sec) \div (2 * u.sec))
    IN  [whole |-> q + (m \div 1000), milli |-> m % 1000]

-----------------------------------------------------------------------------
(* Strings *)

DigitChars == <<"0", "1", "2", "3", "4", "5", "6", "7", "8", "9">>

RECURSIVE toString(_)
\* Number.prototype.toString of a non-negative integer
toString(n) ==
    IF n < 10 THEN <<DigitChars[n + 1]>>
    ELSE toString(n \div 10) \o <<DigitChars[(n % 10) + 1]>>

RECURSIVE PadStart(_, _, _)
\* String.prototype.padStart with a one-character fill
PadStart(s, len, fill) ==
    IF Len(s) >= len THEN s ELSE PadStart(<<fill>> \o s, len, fill)

\* String.prototype.includes
Includes(s, tok) ==
    \E i \in 1..(Len(s) - Len(tok) + 1) : SubSeq(s, i, i + Len(tok) - 1) = tok

RECURSIVE ReplaceFrom(_, _, _, _)
ReplaceFrom(s, tok, rep, i) ==
    IF i > Len(s) THEN <<>>
    ELSE IF i + Len(tok) - 1 <= Len(s) /\ SubSeq(s, i, i + Len(tok) - 1) = tok
         THEN rep \o ReplaceFrom(s, tok, rep, i + Len(tok))
         ELSE <<s[i]>> \o ReplaceFrom(s, tok, rep, i + 1)

\* s.replace(new RegExp(tok, 'g'), rep) for a literal token: the matches are
\* taken from left to right and do not overlap
ReplaceAll(s, tok, rep) == ReplaceFrom(s, tok, rep, 1)

RECURSIVE TrimStart(_)
TrimStart(s) == IF s # <<>> /\ Head(s) = " " THEN TrimStart(Tail(s)) ELSE s

RECURSIVE TrimEnd(_)
TrimEnd(s) ==
    IF s # <<>> /\ s[Len(s)] = " " THEN TrimEnd(SubSeq(s, 1, Len(s) - 1)) ELSE s

\* String.prototype.trim
Trim(s) == TrimEnd(TrimStart(s))

RECURSIVE Join(_)
\* parts.join('')
Join(parts) == IF parts = <<>> THEN <<>> ELSE Head(parts) \o Join(Tail(parts))

-----------------------------------------------------------------------------
(* formatDuration *)

SECOND == W(1000)
MINUTE == WMul(60, SECOND)
HOUR == WMul(60, MINUTE)
DAY == WMul(24, HOUR)
MONTH == WMul(30, DAY)
YEAR == WMul(365, DAY)

years(duration) == WFloorDiv(duration, YEAR)
months(duration) == WFloorDiv(WMod(duration, YEAR), MONTH)
\* the day taken out of what the years and the months left
days_afterYears(duration) == WFloorDiv(WMod(WMod(duration, YEAR), MONTH), DAY)
days(duration) == WFloorDiv(WMod(duration, MONTH), DAY)
hours(duration) == WFloorDiv(WMod(duration, DAY), HOUR)
minutes(duration) == WFloorDiv(WMod(duration, HOUR), MINUTE)
seconds(duration) == WFloorDiv(WMod(duration, MINUTE), SECOND)

\* the tokens with the single letters first
formatTokens_shortFirst ==
    << <<"Y">>, <<"M">>, <<"D">>, <<"H">>, <<"m">>, <<"s">>, <<"Y", "Y">>,
       <<"M", "M">>, <<"D", "D">>, <<"H", "H">>, <<"m", "m">>, <<"s", "s">> >>

formatTokens ==
    << <<"Y", "Y">>, <<"M", "M">>, <<"D", "D">>, <<"H", "H">>, <<"m", "m">>,
       <<"s", "s">>, <<"Y">>, <<"M">>, <<"D">>, <<"H">>, <<"m">>, <<"s">> >>

\* the entry of unitMap for a token: the unit of the token's letter
unitMap(duration) ==
    [token \in {formatTokens[i] : i \in 1..Len(formatTokens)} |->
        CASE token[1] = "Y" -> [unit |-> YEAR,   current |-> years(duration)]
          [] token[1] = "M" -> [unit |-> MONTH,  current |-> months(duration)]
          [] token[1] = "D" -> [unit |-> DAY,    current |-> days(duration)]
          [] token[1] = "H" -> [unit |-> HOUR,   current |-> hours(duration)]
          [] token[1] = "m" -> [unit |-> MINUTE, current |-> minutes(duration)]
          [] token[1] = "s" -> [unit |-> SECOND, current |-> seconds(duration)]]

\* the single-unit branch returning the entry's current value
totalValue_current(duration, token) ==
    [whole |-> unitMap(duration)[token].current, milli |-> 0]

\* unitMap[token].total, rounded as the single-unit branch rounds it
totalValue(duration, token) == WRound3(duration, unitMap(duration)[token].unit)

RECURSIVE replaceTokens(_, _, _)
\* the loop over formatTokens, from token number k on
replaceTokens(res, duration, k) ==
    IF k > Len(formatTokens) THEN res
    ELSE LET token == formatTokens[k]
             current == unitMap(duration)[token].current
             paddedValue == PadStart(toString(current), Len(token), "0")
         IN  IF Includes(res, token)
             THEN replaceTokens(ReplaceAll(res, token, paddedValue), duration, k + 1)
             ELSE replaceTokens(res, duration, k + 1)

\* the smart format without the test parts.length === 0
smartParts_noZero(duration) ==
    LET p1 == IF years(duration) > 0
              THEN << toString(years(duration)) \o <<"nian">> >> ELSE <<>>
        p2 == IF months(duration) > 0
              THEN Append(p1, toString(months(duration)) \o <<"ge", "yue">>) ELSE p1
        p3 == IF days(duration) > 0
              THEN Append(p2, toString(days(duration)) \o <<"tian">>) ELSE p2
        p4 == IF hours(duration) > 0
              THEN Append(p3, toString(hours(duration)) \o <<"xiao", "shi">>) ELSE p3
        p5 == IF minutes(duration) > 0
              THEN Append(p4, toString(minutes(duration)) \o <<"fen", "zhong">>) ELSE p4
    IN  IF seconds(duration) > 0
        THEN Append(p5, toString(seconds(duration)) \o <<"miao">>) ELSE p5

\* the smart format: the parts pushed for the units, then joined
smartParts(duration) ==
    LET p1 == IF years(duration) > 0
              THEN << toString(years(duration)) \o <<"nian">> >> ELSE <<>>
        p2 == IF months(duration) > 0
              THEN Append(p1, toString(months(duration)) \o <<"ge", "yue">>) ELSE p1
        p3 == IF days(duration) > 0
              THEN Append(p2, toString(days(duration)) \o <<"tian">>) ELSE p2
        p4 == IF hours(duration) > 0
              THEN Append(p3, toString(hours(duration)) \o <<"xiao", "shi">>) ELSE p3
        p5 == IF minutes(duration) > 0
              THEN Append(p4, toString(minutes(duration)) \o <<"fen", "zhong">>) ELSE p4
    IN  IF seconds(duration) > 0 \/ Len(p5) = 0
        THEN Append(p5, toString(seconds(duration)) \o <<"miao">>) ELSE p5

\* format is [given |-> FALSE] for undefined, [given |-> TRUE, text |-> s]
\* for a string; the empty string is falsy as undefined is
formatDuration(ts, fmt) ==
    LET duration == Abs(ts)
    IN  IF fmt.given /\ fmt.text # <<>>
        THEN LET trimmedFormat == Trim(fmt.text)
             IN  IF trimmedFormat \in DOMAIN unitMap(duration)
                 THEN [type |-> "number",
                       value |-> totalValue(duration, trimmedFormat)]
                 ELSE [type |-> "string",
                       value |-> replaceTokens(fmt.text, duration, 1)]
        ELSE [type |-> "string", value |-> Join(smartParts(duration))]

-----------------------------------------------------------------------------
(* Inputs of formatDuration *)

Undefined == [given |-> FALSE]
Str(s) == [given |-> TRUE, text |-> s]

TemplateChars == {"Y", "M", "D", "H", "m", "s", ":", " "}

\* every string over TemplateChars of length at most MaxLen
Templates == UNION {[1..n -> TemplateChars] : n \in 0..MaxLen}

\* templates of the documentation and of the tests
ExampleTemplates ==
    { <<"H", "H", ":", "m", "m", ":", "s", "s">>,
      <<"H", ":", "m", ":", "s">>,
      <<"Y", "Y", "nian", "M", "M", "yue", "D", "D", "tian">>,
      <<"M", "M", "yue", "D", "D", "tian">>,
      <<"D", "D", "tian", "H", "H", "shi">>,
      <<" ", "H", "H", " ", " ">> }

\* the template of the documentation's and the tests' year example
YearMonthDay == <<"Y", "Y", "nian", "M", "M", "yue", "D", "D", "tian">>

\* seconds within a day and milliseconds within a second that are tried
DaySeconds == {0, 1, 60, 3599, 3661, 86399}
Millis == {0, 500, 999}

\* the timestamps of the runs without a template
DurationTimestamps ==
    { [neg |-> n, sec |-> d * 86400 + s, ms |-> r] :
        n \in BOOLEAN, d \in 0..MaxDays, s \in DaySeconds, r \in Millis }

\* the timestamps of the runs with a template: durations of both signs
TemplateDays == {0, 30, 396}
TemplateSeconds == {0, 3661, 45296}
TemplateMillis == {0, 30, 333}
NegatedDays == {0, 396}
NegatedSeconds == {0, 3661}
NegatedMillis == {0, 333}
TemplateTimestamps ==
    { [neg |-> FALSE, sec |-> d * 86400 + s, ms |-> r] :
        d \in TemplateDays, s \in TemplateSeconds, r \in TemplateMillis }
    \cup
    { [neg |-> TRUE, sec |-> d * 86400 + s, ms |-> r] :
        d \in NegatedDays, s \in NegatedSeconds, r \in NegatedMillis }

NoResult == [type |-> "none"]

-----------------------------------------------------------------------------
(* The call of formatDuration *)

\* the helpers of the promise package are not in use
RetryIdle ==
    /\ rPc = "idle" /\ retries = 0 /\ retryI = 0
    /\ lastError = [type |-> "undefined"] /\ rOutcome = [type |-> "undefined"]
    /\ rCalls = <<>>
    /\ delayMs = 0 /\ rWaited = 0 /\ rTrace = <<>>

ThrottleIdle ==
    /\ now = 0 /\ wait = 0 /\ lastCallTime = 0
    /\ timeoutId = [set |-> FALSE] /\ lastArgs = [type |-> "undefined"]
    /\ events = <<>>

\* formatDuration is not in use
DurationIdle ==
    /\ fdPc = "idle" /\ timestamp = [neg |-> FALSE, sec |-> 0, ms |-> 0]
    /\ format = Undefined /\ result = NoResult

DebounceIdle ==
    /\ dbNow = 0 /\ dbWait = 0 /\ dbTimeoutId = 0 /\ dbTimers = {}
    /\ dbRunning = {} /\ dbPromises = <<>> /\ dbEvents = <<>>

ParallelIdle ==
    /\ tasks = 0 /\ limit = 0 /\ currentIndex = 0 /\ results = <<>>
    /\ workers = <<>> /\ pSettled = "idle" /\ pLog = <<>>

SequentialIdle ==
    /\ sqTasks = 0 /\ sqPc = [at |-> "idle"] /\ sqResults = <<>> /\ sqLog = <<>>

TimeoutIdle ==
    /\ toNow = 0 /\ toMs = 0 /\ toMessage = "idle" /\ toPromise = "idle"
    /\ toTimer = "idle" /\ toResult = "idle"

PureIdle ==
    /\ pfName = "idle" /\ pfArgs = <<>> /\ pfResult = [type |-> "none"]

DeepCloneIdle ==
    /\ dcPc = "idle" /\ dcHeap = <<>> /\ dcRoot = 0 /\ dcClone = 0
    /\ dcBefore = <<>>

LaterIdle ==
    /\ DebounceIdle /\ ParallelIdle /\ SequentialIdle /\ TimeoutIdle
    /\ PureIdle /\ DeepCloneIdle

vars == <<fdVars, retryVars, throttleVars, laterVars>>

\* every helper but g is out of use
OthersIdle(g) ==
    /\ IF g = "debounce" THEN TRUE ELSE DebounceIdle
    /\ IF g = "parallel" THEN TRUE ELSE ParallelIdle
    /\ IF g = "sequential" THEN TRUE ELSE SequentialIdle
    /\ IF g = "timeout" THEN TRUE ELSE TimeoutIdle
    /\ IF g = "pure" THEN TRUE ELSE PureIdle
    /\ IF g = "deepClone" THEN TRUE ELSE DeepCloneIdle

\* every helper but g keeps its state
OthersUnchanged(g) ==
    /\ UNCHANGED <<fdVars, retryVars, throttleVars>>
    /\ IF g = "debounce" THEN TRUE ELSE UNCHANGED debounceVars
    /\ IF g = "parallel" THEN TRUE ELSE UNCHANGED parallelVars
    /\ IF g = "sequential" THEN TRUE ELSE UNCHANGED sequentialVars
    /\ IF g = "timeout" THEN TRUE ELSE UNCHANGED timeoutVars
    /\ IF g = "pure" THEN TRUE ELSE UNCHANGED pureVars
    /\ IF g = "deepClone" THEN TRUE ELSE UNCHANGED deepCloneVars

\* calls without a template (undefined or ''), and with the year example
InitDuration ==
    /\ fdPc = "call"
    /\ timestamp \in DurationTimestamps
    /\ format \in {Undefined, Str(<<>>), Str(YearMonthDay)}
    /\ result = NoResult
    /\ RetryIdle /\ ThrottleIdle /\ LaterIdle

\* calls with every short template, and without one
InitTemplate ==
    /\ fdPc = "call"
    /\ timestamp \in TemplateTimestamps
    /\ format \in {Undefined} \cup
                  {Str(s) : s \in (Templates \ {<<>>}) \cup ExampleTemplates}
    /\ result = NoResult
    /\ RetryIdle /\ ThrottleIdle /\ LaterIdle

FormatDurationCall ==
    /\ fdPc = "call"
    /\ result' = formatDuration(timestamp, format)
    /\ fdPc' = "done"
    /\ UNCHANGED <<timestamp, format, retryVars, throttleVars, laterVars>>

SpecDuration == InitDuration /\ [][FormatDurationCall]_vars
SpecTemplate == InitTemplate /\ [][FormatDurationCall]_vars

-----------------------------------------------------------------------------
(* Reading a result of formatDuration back *)

DigitValue(c) == CHOOSE k \in 0..9 : DigitChars[k + 1] = c
IsDigit(c) == \E k \in 1..10 : DigitChars[k] = c

\* the unit a label starts with, and the number of characters of the label
LabelOf(c) ==
    CASE c = "nian" -> [unit |-> "year",   len |-> 1]
      [] c = "ge"   -> [unit |-> "month",  len |-> 2]
      [] c = "tian" -> [unit |-> "day",    len |-> 1]
      [] c = "xiao" -> [unit |-> "hour",   len |-> 2]
      [] c = "fen"  -> [unit |-> "minute", len |-> 2]
      [] c = "miao" -> [unit |-> "second", len |-> 1]

RECURSIVE PrintedFrom(_, _, _)
PrintedFrom(s, i, n) ==
    IF i > Len(s) THEN <<>>
    ELSE IF IsDigit(s[i]) THEN PrintedFrom(s, i + 1, n * 10 + DigitValue(s[i]))
    ELSE <<[unit |-> LabelOf(s[i]).unit, value |-> n]>>
             \o PrintedFrom(s, i + LabelOf(s[i]).len, 0)

\* the (unit, value) pairs that a smart-format string prints, in its order
Printed(s) == PrintedFrom(s, 1, 0)

\* the value a smart-format string prints for a unit, 0 when it prints none
PrintedValue(s, unit) ==
    LET ps == Printed(s)
    IN  IF \E k \in 1..Len(ps) : ps[k].unit = unit
        THEN ps[CHOOSE k \in 1..Len(ps) : ps[k].unit = unit].value
        ELSE 0

UnitOrder == <<"year", "month", "day", "hour", "minute", "second">>
UnitRank(unit) == CHOOSE k \in 1..6 : UnitOrder[k] = unit

Done == fdPc = "done"
NoTemplate == format = Undefined
\* the magnitude of the argument
Duration == [sec |-> timestamp.sec, ms |-> timestamp.ms]
WholeDays(n) == [sec |-> n * 86400, ms |-> 0]

\* the decomposition by successive remainders, each unit taken out of what
\* the larger units left, in seconds
Successive(d) ==
    LET y  == d.sec \div (365 * 86400)
        a  == d.sec % (365 * 86400)
        mo == a \div (30 * 86400)
        b  == a % (30 * 86400)
        dd == b \div 86400
        c  == b % 86400
        h  == c \div 3600
        e  == c % 3600
    IN  [year |-> y, month |-> mo, day |-> dd, hour |-> h,
         minute |-> e \div 60, second |-> e % 60]

-----------------------------------------------------------------------------
(* C1 - C3: the decomposition *)

\* C1 (as stated): with no template the printed unit values rebuild the
\* duration: years * 365 days + months * 30 days + days + hours + minutes +
\* seconds is the duration rounded down to a whole second.
ClaimC1_Reconstructs ==
    (Done /\ NoTemplate) =>
        PrintedValue(result.value, "year") * (365 * 86400)
          + PrintedValue(result.value, "month") * (30 * 86400)
          + PrintedValue(result.value, "day") * 86400
          + PrintedValue(result.value, "hour") * 3600
          + PrintedValue(result.value, "minute") * 60
          + PrintedValue(result.value, "second") = Duration.sec

\* C2 (as stated): the printed values are the successive remainders in the
\* order year, month, day, hour, minute, second, so a whole number of years
\* prints as years only: 365 days is "1nian", and "01nian00yue00tian" with
\* the template YYnianMMyueDDtian.
ClaimC2_SuccessiveRemainders ==
    /\ (Done /\ NoTemplate) =>
          /\ \A k \in 1..6 :
                PrintedValue(result.value, UnitOrder[k])
                    = Successive(Duration)[UnitOrder[k]]
          /\ (Duration = WholeDays(365)) => result.value = <<"1", "nian">>
          /\ (Duration = WholeDays(3 * 365)) => result.value = <<"3", "nian">>
    /\ (Done /\ format = Str(YearMonthDay) /\ Duration = WholeDays(365)) =>
          result.value
              = <<"0", "1", "nian", "0", "0", "yue", "0", "0", "tian">>

-----------------------------------------------------------------------------
(* C4 - C7: sign, single-unit templates, composite templates, smart format *)

UnitLetters == {"Y", "M", "D", "H", "m", "s"}
SingleTokens == {<<c>> : c \in UnitLetters} \cup {<<c, c>> : c \in UnitLetters}

\* the size of a letter's unit, in seconds
UnitSeconds(c) ==
    CASE c = "Y" -> 365 * 86400
      [] c = "M" -> 30 * 86400
      [] c = "D" -> 86400
      [] c = "H" -> 3600
      [] c = "m" -> 60
      [] c = "s" -> 1

\* the remainder value of a letter's unit: what the larger unit leaves,
\* floored (the day out of the 30-day remainder of the whole duration)
UnitValue(c, d) ==
    CASE c = "Y" -> d.sec \div (365 * 86400)
      [] c = "M" -> (d.sec % (365 * 86400)) \div (30 * 86400)
      [] c = "D" -> (d.sec % (30 * 86400)) \div 86400
      [] c = "H" -> (d.sec % 86400) \div 3600
      [] c = "m" -> (d.sec % 3600) \div 60
      [] c = "s" -> d.sec % 60

IsSingleUnit == format.given /\ Trim(format.text) \in SingleTokens
IsComposite == format.given /\ format.text # <<>> /\ ~IsSingleUnit

\* C4: the sign of the input never influences the output:
\* formatDuration(-d, fmt) is formatDuration(d, fmt) for every d and fmt.
TheoremC4_SignIgnored ==
    Done => result = formatDuration(Negate(timestamp), format)

WitnessC4 ==
    /\ Done /\ timestamp = [neg |-> TRUE, sec |-> 3661, ms |-> 0]
    /\ format = Str(<<"H", ":", "m">>)
    /\ result = [type |-> "string", value |-> <<"1", ":", "1">>]

\* val = whole + milli / 1000 is a multiple of 1/1000 nearest to d / u, u a
\* unit of u seconds: with q = floor(d / u) and V the thousandths of val
\* above q, V * u differs from the rest of d (in milliseconds) by at most
\* u / 2.  The difference is E = 1000 * A + V * (u % 1000) - d.ms with
\* A = V * (u div 1000) - rest; A is bounded first, as the bound on E forces.
NearestThousandth(val, d, u) ==
    LET q == d.sec \div u
        r == d.sec % u
        V == (val.whole - q) * 1000 + val.milli
        A == V * (u \div 1000) - r
        E == 1000 * A + V * (u % 1000) - d.ms
    IN  /\ val.whole - q \in {0, 1}
        /\ val.milli \in 0..999
        /\ A <= (u \div 2000) + 1 /\ -A <= (u \div 2000) + 2001
        /\ 2 * E <= u /\ -2 * E <= u

\* C5: when the trimmed template is exactly one unit token the result is a
\* number: the whole duration divided by the unit's size (a true division,
\* not the floored remainder), rounded to 3 decimal places; the single and
\* the doubled letter give the same number.
TheoremC5_SingleUnitTotal ==
    (Done /\ IsSingleUnit) =>
        LET c == Trim(format.text)[1]
        IN  /\ result.type = "number"
            /\ NearestThousandth(result.value, Duration, UnitSeconds(c))
            /\ result = formatDuration(timestamp, Str(<<c>>))
            /\ result = formatDuration(timestamp, Str(<<c, c>>))

\* 30 days 1 h 1 min 1.333 s in hours: 721.017, not the remainder value 1
WitnessC5 ==
    /\ Done /\ format = Str(<<" ", "H", "H", " ", " ">>)
    /\ Duration = [sec |-> 30 * 86400 + 3661, ms |-> 333]
    /\ result = [type |-> "number", value |-> [whole |-> 721, milli |-> 17]]

RECURSIVE Substituted(_, _, _)
\* the template read once from left to right: a doubled unit letter is one
\* token padded to two digits, a single unit letter one token not padded,
\* any other character stands for itself
Substituted(fmt, d, i) ==
    IF i > Len(fmt) THEN <<>>
    ELSE IF fmt[i] \in UnitLetters /\ i < Len(fmt) /\ fmt[i + 1] = fmt[i]
         THEN PadStart(toString(UnitValue(fmt[i], d)), 2, "0")
                  \o Substituted(fmt, d, i + 2)
    ELSE IF fmt[i] \in UnitLetters
         THEN toString(UnitValue(fmt[i], d)) \o Substituted(fmt, d, i + 1)
    ELSE <<fmt[i]>> \o Substituted(fmt, d, i + 1)

TheoremC7_SmartFormat ==
    (Done /\ NoTemplate) =>
        LET ps == Printed(result.value)
            val(unit) == UnitValue(CASE unit = "year" -> "Y"
                                     [] unit = "month" -> "M"
                                     [] unit = "day" -> "D"
                                     [] unit = "hour" -> "H"
                                     [] unit = "minute" -> "m"
                                     [] unit = "second" -> "s", Duration)
            allZero == \A k \in 1..6 : val(UnitOrder[k]) = 0
        IN  /\ result.type = "string"
            /\ result.value # <<>>
            /\ \A k \in 1..Len(ps) : ps[k].value = val(ps[k].unit)
            /\ \A k \in 1..(Len(ps) - 1) :
                   UnitRank(ps[k].unit) < UnitRank(ps[k + 1].unit)
            /\ \A k \in 1..6 :
                   (val(UnitOrder[k]) # 0) =>
                       \E n \in 1..Len(ps) : ps[n].unit = UnitOrder[k]
            /\ \A k \in 1..Len(ps) :
                   ps[k].value = 0 => (ps[k].unit = "second" /\ allZero)
            /\ (Duration.sec = 0) => result.value = <<"0", "miao">>

WitnessC7 ==
    /\ Done /\ NoTemplate
    /\ Duration = [sec |-> 0, ms |-> 999]
    /\ result.value = <<"0", "miao">>

-----------------------------------------------------------------------------
(* retry *)

MaxRetries == 3      \* largest value of the argument retries
MaxDelay == 2        \* largest value of the argument delayMs

\* what a call of fn can resolve with
Values == {"v1", "v2"}

\* what a call of fn can reject with (or throw): an Error object, or a value
\* that is not an Error (a string)
Rejections ==
    {[type |-> "Error", message |-> m, from |-> "fn"] : m \in {"e1", "e2"}}
        \cup {[type |-> "string", text |-> m] : m \in {"e1", "e2"}}

\* error instanceof Error ? error : new Error(String(error))
toError(error) ==
    IF error.type = "Error" THEN error
    ELSE [type |-> "Error", message |-> error.text, from |-> "retry"]

InitRetry ==
    /\ rPc = "start"
    /\ retries \in (-1)..MaxRetries
    /\ retryI = 0
    /\ lastError = [type |-> "undefined"]
    /\ rOutcome = [type |-> "undefined"]
    /\ rCalls = <<>>
    /\ delayMs \in 0..MaxDelay
    /\ rWaited = 0
    /\ rTrace = <<>>
    /\ DurationIdle /\ ThrottleIdle /\ LaterIdle

\* the loop running while i < retries
loopHead_oneShort(k, err) ==
    IF k < retries
    THEN /\ rPc' = "fn"
         /\ rOutcome' = rOutcome
    ELSE /\ rPc' = "rejected"
         /\ rOutcome' = err

\* the head of the for loop with the counter at k: the next call of fn, or
\* the throw after the loop
loopHead(k, err) ==
    IF k <= retries
    THEN /\ rPc' = "fn"
         /\ rOutcome' = rOutcome
    ELSE /\ rPc' = "rejected"
         /\ rOutcome' = err

\* the history after the events evs and, when the loop goes on to it, the
\* next call of fn
traced(evs) ==
    rTrace' = rTrace \o evs
                  \o (IF rPc' = "fn" THEN <<[ev |-> "call"]>> ELSE <<>>)

\* retry(fn, retries, delayMs) is called: the loop is entered
RetryCall ==
    /\ rPc = "start"
    /\ loopHead(0, lastError)
    /\ traced(<<>>)
    /\ UNCHANGED <<retries, retryI, lastError, rCalls, delayMs, rWaited>>
    /\ UNCHANGED <<fdVars, throttleVars, laterVars>>

\* the awaited call of fn resolves: return
FnResolves ==
    /\ rPc = "fn"
    /\ \E v \in Values :
          /\ rCalls' = Append(rCalls, [ok |-> TRUE, value |-> v])
          /\ rOutcome' = v
    /\ rPc' = "resolved"
    /\ traced(<<[ev |-> "ok"]>>)
    /\ UNCHANGED <<retries, retryI, lastError, delayMs, rWaited>>
    /\ UNCHANGED <<fdVars, throttleVars, laterVars>>

\* the awaited call of fn rejects: the catch block, which waits when retries
\* are left and otherwise goes on to the head of the loop
FnRejects ==
    /\ rPc = "fn"
    /\ \E error \in Rejections :
          /\ rCalls' = Append(rCalls, [ok |-> FALSE, error |-> error])
          /\ lastError' = toError(error)
          /\ IF retryI < retries
             THEN /\ rPc' = "delay"
                  /\ rWaited' = 0
                  /\ traced(<<[ev |-> "fail"], [ev |-> "delay"]>>)
                  /\ UNCHANGED <<retryI, rOutcome>>
             ELSE /\ retryI' = retryI + 1
                  /\ loopHead(retryI + 1, toError(error))
                  /\ traced(<<[ev |-> "fail"]>>)
                  /\ UNCHANGED rWaited
    /\ UNCHANGED <<retries, delayMs, fdVars, throttleVars, laterVars>>

\* the timer of delay(ms) has run: setTimeout(resolve, ms) runs resolve at
\* the earliest ms milliseconds after the call
delayDue_atOnce(ms, waited) == TRUE

delayDue(ms, waited) == waited >= ms

\* the awaited delay(delayMs) resolves: i++ and the head of the loop
DelayElapses ==
    /\ rPc = "delay"
    /\ delayDue(delayMs, rWaited)
    /\ retryI' = retryI + 1
    /\ loopHead(retryI + 1, lastError)
    /\ traced(<<[ev |-> "resume", waited |-> rWaited]>>)
    /\ UNCHANGED <<retries, lastError, rCalls, delayMs, rWaited>>
    /\ UNCHANGED <<fdVars, throttleVars, laterVars>>

\* a millisecond goes by while delay(delayMs) is awaited; the timer runs at
\* the latest one millisecond after it is due
RetryTick ==
    /\ rPc = "delay"
    /\ rWaited <= delayMs
    /\ rWaited' = rWaited + 1
    /\ UNCHANGED <<rPc, retries, retryI, lastError, rOutcome, rCalls, delayMs, rTrace>>
    /\ UNCHANGED <<fdVars, throttleVars, laterVars>>

NextRetry == RetryCall \/ FnResolves \/ FnRejects \/ DelayElapses \/ RetryTick

SpecRetry == InitRetry /\ [][NextRetry]_vars

\* the number of calls of fn made so far
CallsMade == Len(rCalls) + (IF rPc = "fn" THEN 1 ELSE 0)

\* C8: retry calls fn at most retries + 1 times, makes no call after the
\* first call that succeeds and resolves with that call's value, and when
\* all retries + 1 calls fail it rejects with the failure of the last call
\* (as an Error: a rejection that is not an Error is wrapped in one).
TheoremC8_RetryCount ==
    /\ CallsMade <= retries + 1
    /\ \A k \in 1..Len(rCalls) :
          rCalls[k].ok => (k = Len(rCalls) /\ rPc = "resolved")
    /\ (rPc = "resolved") =>
          /\ rCalls[Len(rCalls)].ok
          /\ rOutcome = rCalls[Len(rCalls)].value
    /\ (retries >= 0 /\ Len(rCalls) = retries + 1
            /\ (\A k \in 1..Len(rCalls) : ~rCalls[k].ok)) =>
          /\ rPc = "rejected"
          /\ LET last == rCalls[Len(rCalls)].error
             IN  IF last.type = "Error" THEN rOutcome = last
                 ELSE /\ rOutcome.type = "Error"
                      /\ rOutcome.message = last.text
    /\ (rPc = "rejected" /\ retries >= 0) =>
          /\ Len(rCalls) = retries + 1
          /\ \A k \in 1..Len(rCalls) : ~rCalls[k].ok

\* three calls failed with e1, e1, e2 and retry rejected with e2
WitnessC8 ==
    /\ rPc = "rejected" /\ retries = 2 /\ Len(rCalls) = 3
    /\ rCalls[1].error = [type |-> "Error", message |-> "e1", from |-> "fn"]
    /\ rCalls[3].error = [type |-> "Error", message |-> "e2", from |-> "fn"]
    /\ rOutcome = [type |-> "Error", message |-> "e2", from |-> "fn"]

-----------------------------------------------------------------------------
(* throttle *)

MaxWait == 3         \* largest value of the argument wait
MaxTicks == 6        \* how far the clock runs
MaxCalls == 4        \* how many calls of the wrapper are made

\* The clock starts at MaxWait: Date.now() is far above any wait, so the
\* first call finds now - lastCallTime >= wait with lastCallTime = 0.
InitThrottle ==
    /\ now = MaxWait
    /\ wait \in 1..MaxWait
    /\ lastCallTime = 0
    /\ timeoutId = [set |-> FALSE]
    /\ lastArgs = [type |-> "undefined"]
    /\ events = <<>>
    /\ DurationIdle /\ RetryIdle /\ LaterIdle

\* the number of calls of the wrapper made so far
CallCount == Cardinality({k \in 1..Len(events) : events[k].type = "call"})

\* fn(...args) is executed
execute(log, args) == Append(log, [type |-> "exec", time |-> now, args |-> args])

\* a call of the wrapper; the arguments of the n-th call are n
ThrottledCall ==
    /\ CallCount < MaxCalls
    /\ LET args == CallCount + 1
           timeSinceLastCall == now - lastCallTime
           called == Append(events, [type |-> "call", time |-> now, args |-> args])
       IN  /\ lastArgs' = args
           /\ IF timeSinceLastCall >= wait
              THEN /\ lastCallTime' = now
                   /\ events' = execute(called, args)
                   /\ UNCHANGED timeoutId
              ELSE IF ~timeoutId.set
              THEN /\ timeoutId' = [set |-> TRUE,
                                    due |-> now + (wait - timeSinceLastCall)]
                   /\ events' = called
                   /\ UNCHANGED lastCallTime
              ELSE /\ events' = called
                   /\ UNCHANGED <<lastCallTime, timeoutId>>
    /\ UNCHANGED <<now, wait, fdVars, retryVars, laterVars>>

\* the callback of setTimeout runs, at the time the timer is due
TimerFires ==
    /\ timeoutId.set /\ now >= timeoutId.due
    /\ lastCallTime' = now
    /\ timeoutId' = [set |-> FALSE]
    /\ events' = execute(events, lastArgs)
    /\ UNCHANGED <<now, wait, lastArgs, fdVars, retryVars, laterVars>>

\* one millisecond passes; a due timer runs before the clock moves on
Tick ==
    /\ now < MaxWait + MaxTicks
    /\ ~(timeoutId.set /\ now >= timeoutId.due)
    /\ now' = now + 1
    /\ UNCHANGED <<wait, lastCallTime, timeoutId, lastArgs, events, fdVars,
                   retryVars, laterVars>>

NextThrottle == ThrottledCall \/ TimerFires \/ Tick

SpecThrottle == InitThrottle /\ [][NextThrottle]_vars

Execs == {k \in 1..Len(events) : events[k].type = "exec"}
Calls == {k \in 1..Len(events) : events[k].type = "call"}

\* C9 (as stated): any two executions of fn are at least wait milliseconds
\* apart, whatever the calls and whatever the order of a due timer and a
\* call at the same instant.
ClaimC9_AtMostOncePerWait ==
    \A j, k \in Execs :
        j < k => events[k].time - events[j].time >= wait

\* the calls made in the wait period that follows execution j: after it and
\* before the period ends
CallsInPeriod(j) ==
    {c \in Calls : c > j /\ events[c].time < events[j].time + wait}

\* C10 (as stated): when calls are made in the wait period that follows an
\* execution, exactly one further execution happens when the period ends,
\* with the arguments of the most recent of those calls; the arguments of
\* the earlier calls of the period are never executed.
ClaimC10_TrailingExecution ==
    \A j \in Execs :
        (CallsInPeriod(j) # {} /\ now > events[j].time + wait) =>
            LET inside == CallsInPeriod(j)
                lastCall == CHOOSE c \in inside : \A o \in inside : o <= c
                atEnd == {k \in Execs : /\ k > j
                                        /\ events[k].time <= events[j].time + wait}
            IN  /\ Cardinality(atEnd) = 1
                /\ \A k \in atEnd :
                      /\ events[k].time = events[j].time + wait
                      /\ events[k].args = events[lastCall].args
                /\ \A c \in inside \ {lastCall} :
                      \A k \in Execs : events[k].args # events[c].args

\* ---------------------------------------------------------------------------
\* debounce(fn, wait)
\* ---------------------------------------------------------------------------

\* The n-th call of the wrapper passes the arguments n, and its timer has the
\* id n.  A promise is "pending", "fulfilled" or "rejected".

InitDebounce ==
    /\ dbNow = 0
    /\ dbWait \in 1..MaxWait
    /\ dbTimeoutId = 0
    /\ dbTimers = {}
    /\ dbRunning = {}
    /\ dbPromises = <<>>
    /\ dbEvents = <<>>
    /\ DurationIdle /\ RetryIdle /\ ThrottleIdle /\ OthersIdle("debounce")

\* clearTimeout(id): a timer that has run or was cleared is not there
clearTimeout(timers, id) == {t \in timers : t.id # id}

\* the wrapper without clearTimeout: every call's timer runs
DebouncedCall_noClear ==
    /\ Len(dbPromises) < MaxCalls
    /\ LET n == Len(dbPromises) + 1 IN
        /\ dbTimers' = dbTimers \cup {[id |-> n, due |-> dbNow + dbWait]}
        /\ dbTimeoutId' = n
        /\ dbPromises' = Append(dbPromises, "pending")
        /\ dbEvents' =
               Append(dbEvents, [type |-> "call", args |-> n, time |-> dbNow])
    /\ UNCHANGED <<dbNow, dbWait, dbRunning>>
    /\ OthersUnchanged("debounce")

\* a call of the returned function
DebouncedCall ==
    /\ Len(dbPromises) < MaxCalls
    /\ LET n == Len(dbPromises) + 1
           cleared == IF dbTimeoutId # 0
                      THEN clearTimeout(dbTimers, dbTimeoutId)
                      ELSE dbTimers
       IN
        /\ dbTimers' = cleared \cup {[id |-> n, due |-> dbNow + dbWait]}
        /\ dbTimeoutId' = n
        /\ dbPromises' = Append(dbPromises, "pending")
        /\ dbEvents' =
               Append(dbEvents, [type |-> "call", args |-> n, time |-> dbNow])
    /\ UNCHANGED <<dbNow, dbWait, dbRunning>>
    /\ OthersUnchanged("debounce")

\* the timer callback starts: fn(...args) is called and awaited
DebounceTimerFires ==
    /\ \E t \in dbTimers :
        /\ t.due <= dbNow
        /\ dbTimers' = dbTimers \ {t}
        /\ dbRunning' = dbRunning \cup {t.id}
        /\ dbEvents' =
               Append(dbEvents, [type |-> "exec", args |-> t.id, time |-> dbNow])
    /\ UNCHANGED <<dbNow, dbWait, dbTimeoutId, dbPromises>>
    /\ OthersUnchanged("debounce")

\* the awaited fn(...args) settles: resolve(result) or reject(error)
DebounceFnSettles ==
    /\ \E c \in dbRunning, ok \in BOOLEAN :
        /\ dbRunning' = dbRunning \ {c}
        /\ dbPromises' =
               [dbPromises EXCEPT ![c] = IF ok THEN "fulfilled" ELSE "rejected"]
    /\ UNCHANGED <<dbNow, dbWait, dbTimeoutId, dbTimers, dbEvents>>
    /\ OthersUnchanged("debounce")

\* a millisecond passes; a due timer runs before the clock moves on
DebounceTick ==
    /\ dbNow < MaxTicks
    /\ \A t \in dbTimers : t.due > dbNow
    /\ dbNow' = dbNow + 1
    /\ UNCHANGED <<dbWait, dbTimeoutId, dbTimers, dbRunning, dbPromises,
                   dbEvents>>
    /\ OthersUnchanged("debounce")

NextDebounce ==
    DebouncedCall \/ DebounceTimerFires \/ DebounceFnSettles \/ DebounceTick

SpecDebounce == InitDebounce /\ [][NextDebounce]_vars

DbExecs == {k \in 1..Len(dbEvents) : dbEvents[k].type = "exec"}
DbCalls == {k \in 1..Len(dbEvents) : dbEvents[k].type = "call"}

\* call k was followed by another call less than wait after it
Superseded(k) ==
    \E d \in DbCalls : d > k /\ dbEvents[d].time < dbEvents[k].time + dbWait

\* call k ended a burst and its wait is over: no later call came up to the
\* instant its timer was due, and the clock is past that instant
BurstEnded(k) ==
    /\ \A d \in DbCalls : d > k => dbEvents[d].time > dbEvents[k].time + dbWait
    /\ dbNow > dbEvents[k].time + dbWait

\* C11: of a burst of calls less than wait apart only the last is executed:
\* every execution of fn happens wait after the most recent call and with its
\* arguments, no call is executed twice, a call followed by another call
\* within wait is never executed, and the call that ends a burst is executed
\* exactly once when its wait is over.
TheoremC11_OnlyLastCallOfBurst ==
    /\ \A e \in DbExecs :
        LET before == {c \in DbCalls : c < e}
            last == CHOOSE c \in before : \A d \in before : d <= c
        IN  /\ before # {}
            /\ dbEvents[e].args = dbEvents[last].args
            /\ dbEvents[e].time = dbEvents[last].time + dbWait
    /\ \A e, f \in DbExecs : dbEvents[e].args = dbEvents[f].args => e = f
    /\ \A c \in DbCalls :
        /\ Superseded(c) =>
               \A e \in DbExecs : dbEvents[e].args # dbEvents[c].args
        /\ BurstEnded(c) =>
               \E e \in DbExecs : dbEvents[e].args = dbEvents[c].args

\* a burst of three calls less than wait apart, the last of which was executed
WitnessC11 ==
    \E a, b, c \in DbCalls, e \in DbExecs :
        /\ a < b /\ b < c /\ c < e
        /\ dbEvents[b].time - dbEvents[a].time < dbWait
        /\ dbEvents[c].time - dbEvents[b].time < dbWait
        /\ dbEvents[b].time > dbEvents[a].time
        /\ dbEvents[e].args = dbEvents[c].args

\* C12 (as stated): every promise returned by a call of the wrapper is
\* settled once fn was executed, the promises of the superseded calls of a
\* burst included: when no timer is set and no execution of fn is under way,
\* no returned promise is pending.
ClaimC12_EveryPromiseSettles ==
    (dbTimers = {} /\ dbRunning = {}) =>
        \A c \in 1..Len(dbPromises) : dbPromises[c] # "pending"

\* ---------------------------------------------------------------------------
\* parallel(tasks, limit)
\* ---------------------------------------------------------------------------

MaxTasks == 4        \* longest array of tasks
MaxLimit == 3        \* largest value given for the argument limit

DefaultLimit == 5    \* the value of limit when the argument is left out

\* Tasks are numbered from 0 as in the code; task i resolves with TaskValue(i)
\* or rejects.  results[i + 1] is the element results[i] of the code.
TaskValue(i) == [type |-> "value", of |-> i]
Empty == [type |-> "undefined"]

Min(a, b) == IF a <= b THEN a ELSE b

\* as many workers as tasks, whatever the limit
workerCount_all(l, n) == n

\* Array.from({ length: Math.min(limit, tasks.length) }, ...): a length
\* below 0 makes an empty array
workerCount(l, n) == IF Min(l, n) < 0 THEN 0 ELSE Min(l, n)

InitParallel ==
    /\ tasks \in 0..MaxTasks
    /\ limit \in (0..MaxLimit) \cup {DefaultLimit}
    /\ currentIndex = 0
    /\ results = [k \in 1..tasks |-> Empty]
    /\ workers = <<>>
    /\ pSettled = "call"
    /\ pLog = <<>>
    /\ DurationIdle /\ RetryIdle /\ ThrottleIdle /\ OthersIdle("parallel")

\* the call: every worker() runs up to its first await, one after the other,
\* so worker w takes the index w - 1 and starts that task
ParallelCall ==
    /\ pSettled = "call"
    /\ LET k == workerCount(limit, tasks) IN
        /\ workers' = [w \in 1..k |-> [at |-> "await", index |-> w - 1]]
        /\ currentIndex' = k
        /\ pLog' = [w \in 1..k |-> [type |-> "start", index |-> w - 1]]
    /\ pSettled' = "pending"
    /\ UNCHANGED <<tasks, limit, results>>
    /\ OthersUnchanged("parallel")

\* the task a worker awaits resolves: the worker stores the value and goes
\* round its loop, taking the next index or returning
TaskResolves ==
    /\ \E w \in DOMAIN workers :
        /\ workers[w].at = "await"
        /\ LET done == workers[w].index IN
            /\ results' = [results EXCEPT ![done + 1] = TaskValue(done)]
            /\ IF currentIndex < tasks
               THEN /\ workers' = [workers EXCEPT
                                      ![w] = [at |-> "await",
                                              index |-> currentIndex]]
                    /\ currentIndex' = currentIndex + 1
                    /\ pLog' = pLog \o
                           <<[type |-> "done", index |-> done],
                             [type |-> "start", index |-> currentIndex]>>
               ELSE /\ workers' = [workers EXCEPT ![w] = [at |-> "returned"]]
                    /\ currentIndex' = currentIndex
                    /\ pLog' = Append(pLog, [type |-> "done", index |-> done])
    /\ UNCHANGED <<tasks, limit, pSettled>>
    /\ OthersUnchanged("parallel")

\* the task a worker awaits rejects: the worker's promise rejects, and so
\* does Promise.all(workers) if it has not yet; the other workers go on
TaskRejects ==
    /\ \E w \in DOMAIN workers :
        /\ workers[w].at = "await"
        /\ workers' = [workers EXCEPT ![w] = [at |-> "thrown"]]
        /\ pLog' = Append(pLog, [type |-> "fail", index |-> workers[w].index])
    /\ pSettled' = IF pSettled = "pending" THEN "rejected" ELSE pSettled
    /\ UNCHANGED <<tasks, limit, currentIndex, results>>
    /\ OthersUnchanged("parallel")

\* every worker returned: await Promise.all(workers) is over, return results
ParallelResolves ==
    /\ pSettled = "pending"
    /\ \A w \in DOMAIN workers : workers[w].at = "returned"
    /\ pSettled' = "resolved"
    /\ UNCHANGED <<tasks, limit, currentIndex, results, workers, pLog>>
    /\ OthersUnchanged("parallel")

NextParallel == ParallelCall \/ TaskResolves \/ TaskRejects \/ ParallelResolves

SpecParallel == InitParallel /\ [][NextParallel]_vars

\* how often the log has an entry of type t for task i
LogCount(log, t, i) ==
    Cardinality({k \in 1..Len(log) : log[k].type = t /\ log[k].index = i})

\* the tasks started and not yet settled
Running(log) ==
    {i \in 0..(MaxTasks + 1) :
        LogCount(log, "start", i) >
            LogCount(log, "done", i) + LogCount(log, "fail", i)}

\* C13: at no moment of parallel(tasks, limit) are more than limit tasks
\* started and not yet settled (limit >= 0).
TheoremC13_AtMostLimitRunning ==
    Cardinality(Running(pLog)) <= limit

\* limit tasks are under way, a task has completed and another one has taken
\* its place, and tasks are still waiting
WitnessC13 ==
    /\ limit >= 2
    /\ Cardinality(Running(pLog)) = limit
    /\ \E k \in 1..Len(pLog) : pLog[k].type = "done"
    /\ currentIndex < tasks

\* C14 (as stated): when parallel resolves, every task was started exactly
\* once and has completed, and results[i] is the value of tasks[i], whatever
\* the order of completion and whatever the limit.
ClaimC14_AllTasksRunInOrder ==
    pSettled = "resolved" =>
        \A i \in 0..(tasks - 1) :
            /\ LogCount(pLog, "start", i) = 1
            /\ LogCount(pLog, "done", i) = 1
            /\ results[i + 1] = TaskValue(i)

\* ---------------------------------------------------------------------------
\* sequential(tasks)
\* ---------------------------------------------------------------------------

\* what a task can resolve with
TaskResults == {"a", "b", "c"}

InitSequential ==
    /\ sqTasks \in 0..MaxTasks
    /\ sqPc = [at |-> "call"]
    /\ sqResults = <<>>
    /\ sqLog = <<>>
    /\ DurationIdle /\ RetryIdle /\ ThrottleIdle /\ OthersIdle("sequential")

\* the loop head: the next task is called and awaited, or results returned
loopNext(k) ==
    IF k < sqTasks THEN [at |-> "await", index |-> k] ELSE [at |-> "resolved"]

startOf(k) ==
    IF k < sqTasks THEN <<[type |-> "start", index |-> k]>> ELSE <<>>

\* a call that starts the second task along with the first
SequentialCall_eager ==
    /\ sqPc.at = "call"
    /\ sqPc' = loopNext(0)
    /\ sqLog' = startOf(0) \o startOf(1)
    /\ UNCHANGED <<sqTasks, sqResults>>
    /\ OthersUnchanged("sequential")

\* the call: results = [], the loop reaches its first await
SequentialCall ==
    /\ sqPc.at = "call"
    /\ sqPc' = loopNext(0)
    /\ sqLog' = startOf(0)
    /\ UNCHANGED <<sqTasks, sqResults>>
    /\ OthersUnchanged("sequential")

\* the awaited task resolves: its value is pushed and the loop goes on
SeqTaskResolves ==
    /\ sqPc.at = "await"
    /\ \E v \in TaskResults :
        /\ sqResults' = Append(sqResults, v)
        /\ sqLog' = Append(sqLog, [type |-> "done", index |-> sqPc.index,
                                   value |-> v])
                        \o startOf(sqPc.index + 1)
    /\ sqPc' = loopNext(sqPc.index + 1)
    /\ UNCHANGED sqTasks
    /\ OthersUnchanged("sequential")

\* the awaited task rejects: sequential rejects and calls no further task
SeqTaskRejects ==
    /\ sqPc.at = "await"
    /\ sqPc' = [at |-> "rejected"]
    /\ sqLog' = Append(sqLog, [type |-> "fail", index |-> sqPc.index])
    /\ UNCHANGED <<sqTasks, sqResults>>
    /\ OthersUnchanged("sequential")

NextSequential == SequentialCall \/ SeqTaskResolves \/ SeqTaskRejects

SpecSequential == InitSequential /\ [][NextSequential]_vars

\* C15: sequential starts task i + 1 only after task i has completed, never
\* has more than one task under way, starts no task twice, and resolves with
\* the values of all the tasks in the order of the tasks.
TheoremC15_OneAfterTheOther ==
    /\ \A k \in 1..Len(sqLog) :
        (sqLog[k].type = "start" /\ sqLog[k].index > 0) =>
            \E j \in 1..(k - 1) :
                sqLog[j].type = "done" /\ sqLog[j].index = sqLog[k].index - 1
    /\ Cardinality(Running(sqLog)) <= 1
    /\ \A i \in 0..(sqTasks - 1) : LogCount(sqLog, "start", i) <= 1
    /\ sqPc.at = "resolved" =>
        /\ Len(sqResults) = sqTasks
        /\ \A i \in 0..(sqTasks - 1) :
            /\ LogCount(sqLog, "start", i) = 1
            /\ \E k \in 1..Len(sqLog) :
                /\ sqLog[k].type = "done" /\ sqLog[k].index = i
                /\ sqResults[i + 1] = sqLog[k].value

\* three tasks or more were run and resolved with different values
WitnessC15 ==
    /\ sqPc.at = "resolved"
    /\ sqTasks >= 3
    /\ sqResults[1] # sqResults[2]
    /\ sqResults[2] # sqResults[3]

\* ---------------------------------------------------------------------------
\* timeout(promise, ms, message)
\* ---------------------------------------------------------------------------

MaxMs == 3           \* largest value of the argument ms

DefaultMessage == "Operation timed out"

Pending == [state |-> "pending"]

\* how the argument promise can have settled, at time t
Settlements(t) ==
    {[state |-> "fulfilled", value |-> v, at |-> t] : v \in Values}
        \cup {[state |-> "rejected", reason |-> e, at |-> t] : e \in Rejections}

\* what a promise that follows p settles with
Outcome(p) ==
    IF p.state = "fulfilled"
    THEN [state |-> "fulfilled", value |-> p.value]
    ELSE [state |-> "rejected", reason |-> p.reason]

\* new Error(message), message defaulting to 'Operation timed out'
TimeoutError(message) ==
    [type |-> "Error",
     message |-> IF message.given THEN message.text ELSE DefaultMessage,
     from |-> "timeout"]

\* the argument promise may be settled already when timeout is called
InitTimeout ==
    /\ toNow = 0
    /\ toMs \in 0..MaxMs
    /\ toMessage \in {[given |-> FALSE], [given |-> TRUE, text |-> "too slow"]}
    /\ toPromise \in {Pending} \cup Settlements(0)
    /\ toTimer = "set"
    /\ toResult = Pending
    /\ DurationIdle /\ RetryIdle /\ ThrottleIdle /\ OthersIdle("timeout")

\* the reaction of Promise.race to the settled argument promise is queued
\* and has not run
ReactionQueued == toPromise.state # "pending" /\ toResult.state = "pending"

\* the argument promise settles
PromiseSettles ==
    /\ toPromise.state = "pending"
    /\ toPromise' \in Settlements(toNow)
    /\ UNCHANGED <<toNow, toMs, toMessage, toTimer, toResult>>
    /\ OthersUnchanged("timeout")

\* Promise.race: the returned promise follows the argument promise, unless
\* it is settled already
RaceFollowsPromise ==
    /\ toPromise.state # "pending"
    /\ toResult.state = "pending"
    /\ toResult' = Outcome(toPromise)
    /\ UNCHANGED <<toNow, toMs, toMessage, toPromise, toTimer>>
    /\ OthersUnchanged("timeout")

\* a timer callback that settles the returned promise a second time
TimeoutTimerFires_overrides ==
    /\ toTimer = "set"
    /\ toNow >= toMs
    /\ ~ReactionQueued
    /\ toTimer' = "run"
    /\ toResult' = [state |-> "rejected", reason |-> TimeoutError(toMessage)]
    /\ UNCHANGED <<toNow, toMs, toMessage, toPromise>>
    /\ OthersUnchanged("timeout")

\* the timer callback: reject(new Error(message)); a settled promise keeps
\* its state.  Promise reactions run before a timer callback does.
TimeoutTimerFires ==
    /\ toTimer = "set"
    /\ toNow >= toMs
    /\ ~ReactionQueued
    /\ toTimer' = "run"
    /\ toResult' =
           IF toResult.state = "pending"
           THEN [state |-> "rejected", reason |-> TimeoutError(toMessage)]
           ELSE toResult
    /\ UNCHANGED <<toNow, toMs, toMessage, toPromise>>
    /\ OthersUnchanged("timeout")

\* a millisecond passes, once the queued reactions and the due timer have run
TimeoutTick ==
    /\ toNow < MaxTicks
    /\ ~ReactionQueued
    /\ toTimer = "set" => toNow < toMs
    /\ toNow' = toNow + 1
    /\ UNCHANGED <<toMs, toMessage, toPromise, toTimer, toResult>>
    /\ OthersUnchanged("timeout")

NextTimeout ==
    PromiseSettles \/ RaceFollowsPromise \/ TimeoutTimerFires \/ TimeoutTick

SpecTimeout == InitTimeout /\ [][NextTimeout]_vars

\* the promise settled before ms had elapsed
SettledInTime == toPromise.state # "pending" /\ toPromise.at < toMs

\* C16: the promise returned by timeout(promise, ms, message) settles with
\* the outcome of promise when promise settles before ms have elapsed, and
\* rejects with Error(message), message being 'Operation timed out' when
\* left out, when the timer fires first; once settled it never changes.
TheoremC16_FirstSettlementWins ==
    /\ [](/\ SettledInTime =>
                /\ toResult.state # "pending" => toResult = Outcome(toPromise)
                /\ toNow > toPromise.at => toResult.state # "pending"
          /\ (toTimer = "run" /\ toPromise.state = "pending") =>
                toResult =
                    [state |-> "rejected",
                     reason |-> [type |-> "Error",
                                 message |-> IF toMessage.given
                                             THEN toMessage.text
                                             ELSE "Operation timed out",
                                 from |-> "timeout"]])
    /\ [][toResult.state # "pending" => toResult' = toResult]_vars

\* the promise resolved in time, the timer ran afterwards, and the returned
\* promise still holds the value of the promise
WitnessC16 ==
    /\ SettledInTime
    /\ toPromise.state = "fulfilled"
    /\ toPromise.at > 0
    /\ toTimer = "run"
    /\ toResult = Outcome(toPromise)

\* ---------------------------------------------------------------------------
\* chunk(array, size) and unique(array)
\* ---------------------------------------------------------------------------

MaxArr == 4          \* longest array given to chunk and unique

Returned(v) == [type |-> "value", value |-> v]

\* array.slice(a, b) for 0 <= a <= b: the elements at the indices a..b
\* (the end included)
slice_inclusive(array, a, b) == SubSeq(array, a + 1, Min(b + 1, Len(array)))

\* array.slice(a, b) for 0 <= a <= b: the elements at the indices a..b-1
slice(array, a, b) == SubSeq(array, a + 1, Min(b, Len(array)))

RECURSIVE chunkLoop(_, _, _)
\* for (let i = ...; i < array.length; i += size) result.push(array.slice(...))
chunkLoop(array, size, i) ==
    IF i < Len(array)
    THEN <<slice(array, i, i + size)>> \o chunkLoop(array, size, i + size)
    ELSE <<>>

chunk(array, size) ==
    IF size <= 0 THEN <<array>> ELSE chunkLoop(array, size, 0)

\* the elements of the arrays given to chunk
ChunkItems == 1..3

Arrays(items) == UNION {[1..n -> items] : n \in 0..MaxArr}

InitChunk ==
    /\ pfName = "chunk"
    /\ pfArgs \in [array : Arrays(ChunkItems), size : (-1)..(MaxArr + 1)]
    /\ pfResult = NoResult
    /\ DurationIdle /\ RetryIdle /\ ThrottleIdle /\ OthersIdle("pure")

ChunkCall ==
    /\ pfName = "chunk"
    /\ pfResult = NoResult
    /\ pfResult' = Returned(chunk(pfArgs.array, pfArgs.size))
    /\ UNCHANGED <<pfName, pfArgs>>
    /\ OthersUnchanged("pure")

SpecChunk == InitChunk /\ [][ChunkCall]_vars

RECURSIVE Flatten(_)
\* the concatenation of the arrays of an array of arrays
Flatten(arrays) ==
    IF arrays = <<>> THEN <<>> ELSE Head(arrays) \o Flatten(Tail(arrays))

\* C17: for a positive integer size, the chunks of chunk(array, size)
\* concatenated in order give array back, and no chunk has more than size
\* elements.
TheoremC17_ChunksPartition ==
    (pfName = "chunk" /\ pfResult # NoResult /\ pfArgs.size > 0) =>
        /\ Flatten(pfResult.value) = pfArgs.array
        /\ \A k \in 1..Len(pfResult.value) :
               Len(pfResult.value[k]) <= pfArgs.size

\* an array cut into full chunks and a shorter last one
WitnessC17 ==
    /\ pfName = "chunk" /\ pfResult # NoResult
    /\ pfArgs.size = 2
    /\ Len(pfArgs.array) = 3
    /\ Len(pfResult.value) = 2

\* What unique is given: numbers and strings, among them a number and the
\* string of its digits.
Primitives == {[number |-> 1], [number |-> 2], [string |-> "1"]}

\* a Set is kept as its elements in insertion order

\* adding a value moves it to the end of the order
setAdd_last(set, v) == Append(SelectSeq(set, LAMBDA x : x # v), v)

\* Set.prototype.add: a value the set has already stays where it is
setAdd(set, v) ==
    IF \E k \in 1..Len(set) : set[k] = v THEN set ELSE Append(set, v)

RECURSIVE newSet(_)
\* new Set(array): the elements are added in array order
newSet(array) ==
    IF array = <<>> THEN <<>>
    ELSE setAdd(newSet(SubSeq(array, 1, Len(array) - 1)), array[Len(array)])

\* Array.from(new Set(array))
unique(array) == newSet(array)

InitUnique ==
    /\ pfName = "unique"
    /\ pfArgs \in [array : Arrays(Primitives)]
    /\ pfResult = NoResult
    /\ DurationIdle /\ RetryIdle /\ ThrottleIdle /\ OthersIdle("pure")

UniqueCall ==
    /\ pfName = "unique"
    /\ pfResult = NoResult
    /\ pfResult' = Returned(unique(pfArgs.array))
    /\ UNCHANGED <<pfName, pfArgs>>
    /\ OthersUnchanged("pure")

SpecUnique == InitUnique /\ [][UniqueCall]_vars

\* the index at which v first occurs in array
FirstIndex(array, v) ==
    CHOOSE k \in 1..Len(array) :
        array[k] = v /\ \A j \in 1..(k - 1) : array[j] # v

\* C18: unique(array) holds every distinct primitive value of array exactly
\* once, and nothing else, in the order of the first occurrences in array.
TheoremC18_DistinctInFirstOrder ==
    (pfName = "unique" /\ pfResult # NoResult) =>
        LET r == pfResult.value
            a == pfArgs.array
        IN  /\ {r[k] : k \in 1..Len(r)} = {a[k] : k \in 1..Len(a)}
            /\ \A j, k \in 1..Len(r) : r[j] = r[k] => j = k
            /\ \A j, k \in 1..Len(r) :
                   j < k => FirstIndex(a, r[j]) < FirstIndex(a, r[k])

\* a value occurs again after another value came first
WitnessC18 ==
    /\ pfName = "unique" /\ pfResult # NoResult
    /\ Len(pfArgs.array) >= 3
    /\ pfArgs.array[1] = pfArgs.array[3]
    /\ pfArgs.array[1] # pfArgs.array[2]
    /\ Len(pfResult.value) = 2

\* ---------------------------------------------------------------------------
\* deepClone(obj)
\* ---------------------------------------------------------------------------

MaxObjects == 3      \* how many objects the argument is built of, at most

\* A value is a primitive or the reference of an object; the objects live in
\* the heap, a sequence indexed by address.  A plain object lists its own
\* enumerable keys in the order of Object.keys, with their values.
Prim(p) == [prim |-> p]
Ref(a) == [ref |-> a]
IsRef(v) == DOMAIN v = {"ref"}

PlainObject(keys, values) ==
    [kind |-> "object", keys |-> keys, values |-> values]
Array(items) == [kind |-> "array", items |-> items]
Date(time) == [kind |-> "date", time |-> time]
RegExp(source, flags) == [kind |-> "regexp", source |-> source, flags |-> flags]

\* a new object is put at a fresh address
Alloc(heap, object) ==
    [heap |-> Append(heap, object), value |-> Ref(Len(heap) + 1)]

RECURSIVE deepClone(_, _)
RECURSIVE cloneItems(_, _, _)

\* deepClone applied to the first k of a list of values in turn, as
\* obj.map(...) and Object.keys(obj).forEach(...) do
cloneItems(heap, items, k) ==
    IF k = 0 THEN [heap |-> heap, items |-> <<>>]
    ELSE LET before == cloneItems(heap, items, k - 1)
             c == deepClone(before.heap, items[k])
         IN  [heap |-> c.heap, items |-> Append(before.items, c.value)]

\* a copy of the array that holds the same items
cloneArray_shallow(heap, v) == Alloc(heap, Array(heap[v.ref].items))

\* obj.map(item => deepClone(item))
cloneArray(heap, v) ==
    LET items == heap[v.ref].items
        c == cloneItems(heap, items, Len(items))
    IN  Alloc(c.heap, Array(c.items))

deepClone(heap, v) ==
    IF ~IsRef(v) THEN [heap |-> heap, value |-> v]
    ELSE LET obj == heap[v.ref] IN
        CASE obj.kind = "date" -> Alloc(heap, Date(obj.time))
          [] obj.kind = "regexp" -> Alloc(heap, RegExp(obj.source, obj.flags))
          [] obj.kind = "array" -> cloneArray(heap, v)
          [] OTHER ->
                LET c == cloneItems(heap, obj.values, Len(obj.values))
                IN  Alloc(c.heap, PlainObject(obj.keys, c.items))

\* The arguments: 1..MaxObjects objects, the argument being the first; an
\* object refers only to objects after it, so there is no cycle, but two
\* references may lead to the same object.
ValuesAt(a, n) == {Prim(0)} \cup {Ref(b) : b \in (a + 1)..n}

ObjectsAt(a, n) ==
    LET V == ValuesAt(a, n) IN
    {PlainObject(<<"a", "b">>, <<v, w>>) : v \in V, w \in V}
        \cup {Array(<<>>)}
        \cup {Array(<<v>>) : v \in V}
        \cup {Date(1), RegExp("a", "g")}

RECURSIVE HeapsFrom(_, _)
HeapsFrom(a, n) ==
    IF a > n THEN {<<>>}
    ELSE {<<o>> \o rest : o \in ObjectsAt(a, n), rest \in HeapsFrom(a + 1, n)}

NotCloned == [type |-> "none"]

InitDeepClone ==
    /\ dcPc = "call"
    /\ dcHeap \in UNION {HeapsFrom(1, n) : n \in 1..MaxObjects}
    /\ dcRoot = Ref(1)
    /\ dcClone = NotCloned
    /\ dcBefore = dcHeap
    /\ DurationIdle /\ RetryIdle /\ ThrottleIdle /\ OthersIdle("deepClone")

DeepCloneCall ==
    /\ dcPc = "call"
    /\ LET c == deepClone(dcHeap, dcRoot) IN
        /\ dcHeap' = c.heap
        /\ dcClone' = c.value
    /\ dcPc' = "cloned"
    /\ UNCHANGED <<dcRoot, dcBefore>>
    /\ OthersUnchanged("deepClone")

RECURSIVE Reach(_, _)
\* the addresses of the objects a value leads to
Reach(heap, v) ==
    IF ~IsRef(v) THEN {}
    ELSE LET obj == heap[v.ref]
             inside == CASE obj.kind = "object" -> obj.values
                         [] obj.kind = "array" -> obj.items
                         [] OTHER -> <<>>
         IN  {v.ref} \cup UNION {Reach(heap, inside[k]) : k \in 1..Len(inside)}

\* what the caller does to an object it holds: assign a property, push an
\* item, set the time
Changed(obj) ==
    CASE obj.kind = "object" ->
            [obj EXCEPT !.values = [obj.values EXCEPT ![1] = Prim(9)]]
      [] obj.kind = "array" -> [obj EXCEPT !.items = Append(obj.items, Prim(9))]
      [] OTHER -> [obj EXCEPT !.time = obj.time + 1]

\* after the call, the caller changes an object of the clone or an object of
\* the original
CallerChanges ==
    /\ dcPc = "cloned"
    /\ \E side \in {"clone", "original"} :
        LET root == IF side = "clone" THEN dcClone ELSE dcRoot IN
        /\ \E a \in Reach(dcHeap, root) :
            /\ dcHeap[a].kind # "regexp"
            /\ dcHeap' = [dcHeap EXCEPT ![a] = Changed(dcHeap[a])]
        /\ dcPc' = IF side = "clone" THEN "changed the clone"
                   ELSE "changed the original"
    /\ UNCHANGED <<dcRoot, dcClone, dcBefore>>
    /\ OthersUnchanged("deepClone")

NextDeepClone == DeepCloneCall \/ CallerChanges

SpecDeepClone == InitDeepClone /\ [][NextDeepClone]_vars

RECURSIVE Unfold(_, _)
\* a value without its addresses: what deep equality compares
Unfold(heap, v) ==
    IF ~IsRef(v) THEN v
    ELSE LET obj == heap[v.ref] IN
        CASE obj.kind = "object" ->
                [obj EXCEPT !.values =
                    [k \in 1..Len(obj.values) |-> Unfold(heap, obj.values[k])]]
          [] obj.kind = "array" ->
                [obj EXCEPT !.items =
                    [k \in 1..Len(obj.items) |-> Unfold(heap, obj.items[k])]]
          [] OTHER -> obj

MaxStr == 6          \* longest string given to truncate

DefaultLength == 50
DefaultEllipsis == <<".", ".", ".">>

Num(n) == [given |-> TRUE, value |-> n]

Clamp(n, len) == IF n < 0 THEN 0 ELSE Min(n, len)

\* String.prototype.substring: both indices are clamped to 0..length and
\* swapped when the first is the larger
substring(s, start, end) ==
    LET a == Clamp(start, Len(s))
        b == Clamp(end, Len(s))
    IN  SubSeq(s, Min(a, b) + 1, IF a <= b THEN b ELSE a)

\* no room left for the ellipsis
truncatedLength_whole(length, ellipsis) == length

truncatedLength(length, ellipsis) == length - Len(ellipsis)

truncate(str, lengthArg, ellipsisArg) ==
    LET length == IF lengthArg.given THEN lengthArg.value ELSE DefaultLength
        ellipsis == IF ellipsisArg.given THEN ellipsisArg.text
                    ELSE DefaultEllipsis
    IN  IF Len(str) <= length THEN str
        ELSE substring(str, 0, truncatedLength(length, ellipsis)) \o ellipsis

TruncateStrings == UNION {[1..n -> {"a", "b"}] : n \in 0..MaxStr}

InitTruncate ==
    /\ pfName = "truncate"
    /\ pfArgs \in
           [str : TruncateStrings,
            length : {Undefined} \cup {Num(n) : n \in (-1)..(MaxStr + 1)},
            ellipsis : {Undefined, Str(<<>>), Str(<<"~">>), Str(<<"-", ">">>)}]
    /\ pfResult = NoResult
    /\ DurationIdle /\ RetryIdle /\ ThrottleIdle /\ OthersIdle("pure")

TruncateCall ==
    /\ pfName = "truncate"
    /\ pfResult = NoResult
    /\ pfResult' =
           Returned(truncate(pfArgs.str, pfArgs.length, pfArgs.ellipsis))
    /\ UNCHANGED <<pfName, pfArgs>>
    /\ OthersUnchanged("pure")

SpecTruncate == InitTruncate /\ [][TruncateCall]_vars

\* the arguments of the call of truncate, the defaults filled in
TruncateLength ==
    IF pfArgs.length.given THEN pfArgs.length.value ELSE 50
TruncateEllipsis ==
    IF pfArgs.ellipsis.given THEN pfArgs.ellipsis.text ELSE <<".", ".", ".">>

ClaimC21_NeverLongerThanLength ==
    (pfName = "truncate" /\ pfResult # NoResult) =>
        Len(pfResult.value) <= TruncateLength

\* ---------------------------------------------------------------------------
\* parseJsonStr(str, defaultValue)
\* ---------------------------------------------------------------------------

\* JavaScript values: undefined, null, booleans, numbers (kept as their
\* literal), strings (sequences of characters), arrays and plain objects.
\* "nbsp" stands for the character U+00A0.
JsUndefined == [kind |-> "undefined"]
JsNull == [kind |-> "null"]
JsBoolean(b) == [kind |-> "boolean", value |-> b]
JsNumber(literal) == [kind |-> "number", literal |-> literal]
JsString(text) == [kind |-> "string", text |-> text]
JsArray(items) == [kind |-> "array", items |-> items]
JsObject(keys, values) == [kind |-> "object", keys |-> keys, values |-> values]

\* the character at index i (from 1), "" outside the string
At(s, i) == IF i >= 1 /\ i <= Len(s) THEN s[i] ELSE ""

RECURSIVE DigitsEnd(_, _)
\* the index after the digits that start at index i
DigitsEnd(s, i) == IF IsDigit(At(s, i)) THEN DigitsEnd(s, i + 1) ELSE i

\* String.prototype.trim strips white space and line terminators, U+00A0
\* among them
TrimChars == {" ", "nbsp"}

RECURSIVE trimStart(_)
trimStart(s) ==
    IF s # <<>> /\ Head(s) \in TrimChars THEN trimStart(Tail(s)) ELSE s

RECURSIVE trimEnd(_)
trimEnd(s) ==
    IF s # <<>> /\ s[Len(s)] \in TrimChars
    THEN trimEnd(SubSeq(s, 1, Len(s) - 1)) ELSE s

trim(s) == trimEnd(trimStart(s))

\* JSON.parse.  The white space of JSON is space, tab, line feed and
\* carriage return; of these the strings here hold the space only.  A
\* failure stands for the SyntaxError thrown.
JsonFail == [ok |-> FALSE]
JsonOk(next, value) == [ok |-> TRUE, next |-> next, value |-> value]

RECURSIVE SkipWs(_, _)
SkipWs(s, i) == IF At(s, i) = " " THEN SkipWs(s, i + 1) ELSE i

\* number: -? (0 | [1-9][0-9]*) (. [0-9]+)? ([eE] [+-]? [0-9]+)?
ParseNumber(s, i) ==
    LET a == IF At(s, i) = "-" THEN i + 1 ELSE i
        int == IF At(s, a) = "0" THEN a + 1 ELSE DigitsEnd(s, a)
        fracDigits == DigitsEnd(s, int + 1)
        hasFrac == At(s, int) = "."
        frac == IF hasFrac THEN fracDigits ELSE int
        hasExp == At(s, frac) \in {"e", "E"}
        b == IF At(s, frac + 1) \in {"+", "-"} THEN frac + 2 ELSE frac + 1
        exp == IF hasExp THEN DigitsEnd(s, b) ELSE frac
    IN  IF int = a \/ (hasFrac /\ fracDigits = int + 1) \/ (hasExp /\ exp = b)
        THEN JsonFail
        ELSE JsonOk(exp, JsNumber(SubSeq(s, i, exp - 1)))

RECURSIVE QuoteFrom(_, _)
\* the index of the next double quote from index i on, 0 if there is none
QuoteFrom(s, i) ==
    IF i > Len(s) THEN 0
    ELSE IF s[i] = "\"" THEN i ELSE QuoteFrom(s, i + 1)

\* string: a double quote, characters, a double quote (no escapes here)
ParseString(s, i) ==
    LET close == QuoteFrom(s, i + 1) IN
    IF At(s, i) # "\"" \/ close = 0 THEN JsonFail
    ELSE JsonOk(close + 1, JsString(SubSeq(s, i + 1, close - 1)))

ParseLiteral(s, i, word, value) ==
    IF SubSeq(s, i, Min(i + Len(word) - 1, Len(s))) = word
    THEN JsonOk(i + Len(word), value) ELSE JsonFail

RECURSIVE ParseValue(_, _)
RECURSIVE ParseElements(_, _, _)
RECURSIVE ParseMembers(_, _, _, _)

\* the elements of an array after "[", up to "]"
ParseElements(s, i, items) ==
    LET v == ParseValue(s, SkipWs(s, i)) IN
    IF ~v.ok THEN JsonFail
    ELSE LET j == SkipWs(s, v.next) IN
        CASE At(s, j) = "," -> ParseElements(s, j + 1, Append(items, v.value))
          [] At(s, j) = "]" -> JsonOk(j + 1, JsArray(Append(items, v.value)))
          [] OTHER -> JsonFail

\* the members of an object after "{", up to "}"
ParseMembers(s, i, keys, values) ==
    LET k == ParseString(s, SkipWs(s, i)) IN
    IF ~k.ok THEN JsonFail
    ELSE LET colon == SkipWs(s, k.next) IN
        IF At(s, colon) # ":" THEN JsonFail
        ELSE LET v == ParseValue(s, SkipWs(s, colon + 1)) IN
            IF ~v.ok THEN JsonFail
            ELSE LET j == SkipWs(s, v.next)
                     ks == Append(keys, k.value.text)
                     vs == Append(values, v.value)
                 IN  CASE At(s, j) = "," -> ParseMembers(s, j + 1, ks, vs)
                       [] At(s, j) = "}" -> JsonOk(j + 1, JsObject(ks, vs))
                       [] OTHER -> JsonFail

ParseValue(s, i) ==
    LET c == At(s, i) IN
    CASE c = "{" ->
            IF At(s, SkipWs(s, i + 1)) = "}"
            THEN JsonOk(SkipWs(s, i + 1) + 1, JsObject(<<>>, <<>>))
            ELSE ParseMembers(s, i + 1, <<>>, <<>>)
      [] c = "[" ->
            IF At(s, SkipWs(s, i + 1)) = "]"
            THEN JsonOk(SkipWs(s, i + 1) + 1, JsArray(<<>>))
            ELSE ParseElements(s, i + 1, <<>>)
      [] c = "\"" -> ParseString(s, i)
      [] c = "t" -> ParseLiteral(s, i, <<"t", "r", "u", "e">>, JsBoolean(TRUE))
      [] c = "f" ->
            ParseLiteral(s, i, <<"f", "a", "l", "s", "e">>, JsBoolean(FALSE))
      [] c = "n" -> ParseLiteral(s, i, <<"n", "u", "l", "l">>, JsNull)
      [] c = "-" \/ IsDigit(c) -> ParseNumber(s, i)
      [] OTHER -> JsonFail

\* JSON.parse(text): one value with white space around it
JSONParse(s) ==
    LET v == ParseValue(s, SkipWs(s, 1)) IN
    IF v.ok /\ SkipWs(s, v.next) = Len(s) + 1 THEN v ELSE JsonFail

MaxJson == 3         \* longest enumerated string given to parseJsonStr

\* !str
Falsy(v) ==
    \/ v.kind \in {"undefined", "null"}
    \/ v.kind = "string" /\ v.text = <<>>
    \/ v.kind = "number" /\ v.literal = <<"0">>
    \/ v.kind = "boolean" /\ ~v.value

startsWith(s, c) == At(s, 1) = c
endsWith(s, c) == At(s, Len(s)) = c

\* /^-?\d+(?:\.\d+)?(?:e[+-]?\d+)?$/i.test(s)
numberPattern(s) ==
    LET a == IF At(s, 1) = "-" THEN 2 ELSE 1
        int == DigitsEnd(s, a)
        fracDigits == DigitsEnd(s, int + 1)
        frac == IF At(s, int) = "." /\ fracDigits > int + 1
                THEN fracDigits ELSE int
        b == IF At(s, frac + 1) \in {"+", "-"} THEN frac + 2 ELSE frac + 1
        exp == IF At(s, frac) \in {"e", "E"} /\ DigitsEnd(s, b) > b
               THEN DigitsEnd(s, b) ELSE frac
    IN  int > a /\ exp = Len(s) + 1

isLikelyJson(trimmedStr) ==
    \/ startsWith(trimmedStr, "{") /\ endsWith(trimmedStr, "}")
    \/ startsWith(trimmedStr, "[") /\ endsWith(trimmedStr, "]")
    \/ startsWith(trimmedStr, "\"") /\ endsWith(trimmedStr, "\"")
    \/ numberPattern(trimmedStr)
    \/ trimmedStr \in {<<"t", "r", "u", "e">>, <<"f", "a", "l", "s", "e">>,
                       <<"n", "u", "l", "l">>}

\* an empty object whenever no default value was given
fallback_emptyObject(defaultValue, other) ==
    IF defaultValue # JsUndefined THEN defaultValue ELSE JsObject(<<>>, <<>>)

\* defaultValue !== undefined ? defaultValue : other
fallback(defaultValue, other) ==
    IF defaultValue # JsUndefined THEN defaultValue ELSE other

Threw == [type |-> "threw"]

\* str.trim(): a TypeError for a value that has no method trim
trimOf(v) ==
    IF v.kind = "string" THEN [ok |-> TRUE, text |-> trim(v.text)]
    ELSE [ok |-> FALSE]

parseJsonStr(str, defaultValue) ==
    IF Falsy(str) THEN Returned(fallback(defaultValue, JsObject(<<>>, <<>>)))
    ELSE IF str.kind # "string" THEN Returned(fallback(defaultValue, str))
    ELSE LET trimmedStr == trimOf(str) IN
        IF ~trimmedStr.ok THEN Threw
        ELSE IF ~isLikelyJson(trimmedStr.text)
        THEN Returned(fallback(defaultValue, str))
        ELSE LET parsed == JSONParse(trimmedStr.text) IN
            IF parsed.ok THEN Returned(parsed.value)
            ELSE Returned(fallback(defaultValue, str))

JsonChars == {"{", "}", "[", "]", "\"", "1", "0", ",", " ", "nbsp"}

\* strings of the JSDoc and of the tests, and some more
JsonExamples ==
    {<<"t", "r", "u", "e">>, <<"n", "u", "l", "l">>, <<"n", "u", "l">>,
     <<"f", "a", "l", "s", "e">>, <<"h", "e", "l", "l", "o">>,
     <<"{", "\"", "a", "\"", ":", "1", "}">>, <<"{", "a", "}">>,
     <<"{", "\"", "a", "\"", ":", "}">>, <<"[", "1", ",", " ", "1", "]">>,
     <<"[", "1", ",", " ", "1">>, <<"-", "1", ".", "5">>, <<"1", ".">>,
     <<"1", "e", "-", "4">>, <<"1", "e">>, <<"-">>,
     <<" ", "{", "\"", "a", "\"", ":", "[", "]", "}", " ">>,
     <<"nbsp", "[", "t", "r", "u", "e", "]">>}

JsonInputs ==
    {JsUndefined, JsNull, JsNumber(<<"0">>), JsNumber(<<"1", "2", "3">>)}
        \cup {JsString(s) : s \in JsonExamples}
        \cup {JsString(s) : s \in UNION {[1..n -> JsonChars] : n \in 0..MaxJson}}

JsonDefaults == {JsUndefined, JsNull, JsString(<<"d">>)}

InitParseJsonStr ==
    /\ pfName = "parseJsonStr"
    /\ pfArgs \in [str : JsonInputs, defaultValue : JsonDefaults]
    /\ pfResult = NoResult
    /\ DurationIdle /\ RetryIdle /\ ThrottleIdle /\ OthersIdle("pure")

ParseJsonStrCall ==
    /\ pfName = "parseJsonStr"
    /\ pfResult = NoResult
    /\ pfResult' = parseJsonStr(pfArgs.str, pfArgs.defaultValue)
    /\ UNCHANGED <<pfName, pfArgs>>
    /\ OthersUnchanged("pure")

SpecParseJsonStr == InitParseJsonStr /\ [][ParseJsonStrCall]_vars

ParseJsonStrDone == pfName = "parseJsonStr" /\ pfResult # NoResult

\* what the claim promises for a string that is not JSON
DefaultOrInput ==
    IF pfArgs.defaultValue # JsUndefined THEN pfArgs.defaultValue
    ELSE pfArgs.str

\* C22 (as stated): parseJsonStr never throws, and for an input string that
\* is not valid JSON it returns the default value, or the input string
\* itself when no default value was given.
ClaimC22_DefaultOrInput ==
    ParseJsonStrDone =>
        /\ pfResult # Threw
        /\ (pfArgs.str.kind = "string" /\ ~JSONParse(pfArgs.str.text).ok) =>
               pfResult = Returned(DefaultOrInput)

\* C22 (amended): parseJsonStr never throws; for an input string that is not
\* valid JSON once the white space String.prototype.trim strips is taken off
\* its ends, it returns the default value, or without a default value the
\* input string itself, except for the empty string, which gives {}.
TheoremC22_DefaultOrInputButEmpty ==
    ParseJsonStrDone =>
        /\ pfResult # Threw
        /\ (pfArgs.str.kind = "string"
                /\ ~JSONParse(trim(pfArgs.str.text)).ok) =>
               pfResult =
                   IF pfArgs.str.text = <<>>
                         /\ pfArgs.defaultValue = JsUndefined
                   THEN Returned(JsObject(<<>>, <<>>))
                   ELSE Returned(DefaultOrInput)

\* a string that looks like JSON and is not, given back as it is
WitnessC22 ==
    /\ ParseJsonStrDone
    /\ pfArgs.defaultValue = JsUndefined
    /\ pfArgs.str = JsString(<<"[", "1", ",", " ", "1">>)
       \/ pfArgs.str = JsString(<<"[", ",", "]">>)
    /\ pfResult = Returned(pfArgs.str)

\* ---------------------------------------------------------------------------
\* isEmpty(val)
\* ---------------------------------------------------------------------------

MaxText == 4         \* longest string given to isEmpty

isNullOrUndefined(val) == val.kind \in {"null", "undefined"}
isString(val) == val.kind = "string"
isArray(val) == val.kind = "array"
\* val !== null && typeof val === 'object'
isObject(val) == val.kind \in {"array", "object"}
\* isObject(val) && Object.keys(val).length === 0
isEmptyObject(val) ==
    isObject(val) /\ Len(IF isArray(val) THEN val.items ELSE val.keys) = 0

\* the string is empty
blank_noTrim(text) == Len(text) = 0

\* val.trim().length === 0
blank(text) == Len(trim(text)) = 0

isEmpty(val) ==
    IF isNullOrUndefined(val) THEN TRUE
    ELSE IF isString(val) THEN blank(val.text)
    ELSE IF isArray(val) THEN Len(val.items) = 0
    ELSE IF isObject(val) THEN isEmptyObject(val)
    ELSE FALSE

IsEmptyInputs ==
    {JsNull, JsUndefined, JsBoolean(FALSE), JsBoolean(TRUE),
     JsNumber(<<"0">>), JsNumber(<<"4", "2">>),
     JsArray(<<>>), JsArray(<<JsNull>>), JsArray(<<JsArray(<<>>)>>),
     JsArray(<<JsNumber(<<"1">>), JsNumber(<<"2">>)>>),
     JsObject(<<>>, <<>>), JsObject(<<<<"a">>>>, <<JsNumber(<<"1">>)>>),
     JsObject(<<<<"a">>>>, <<JsUndefined>>)}
        \cup {JsString(s) :
                s \in UNION {[1..n -> {" ", "nbsp", "a"}] : n \in 0..MaxText}}

InitIsEmpty ==
    /\ pfName = "isEmpty"
    /\ pfArgs \in [val : IsEmptyInputs]
    /\ pfResult = NoResult
    /\ DurationIdle /\ RetryIdle /\ ThrottleIdle /\ OthersIdle("pure")

IsEmptyCall ==
    /\ pfName = "isEmpty"
    /\ pfResult = NoResult
    /\ pfResult' = Returned(isEmpty(pfArgs.val))
    /\ UNCHANGED <<pfName, pfArgs>>
    /\ OthersUnchanged("pure")

SpecIsEmpty == InitIsEmpty /\ [][IsEmptyCall]_vars

IsEmptyDone == pfName = "isEmpty" /\ pfResult # NoResult

\* every character of the string is white space
OnlyWhiteSpace(text) == \A k \in 1..Len(text) : text[k] \in {" ", "nbsp"}

\* C23: isEmpty is true for null, undefined, a string that is empty or all
\* white space, an array of length 0 and an object without own keys; it is
\* false for 0, for false and for a string with a character that is not
\* white space.
TheoremC23_EmptyValues ==
    IsEmptyDone =>
        LET val == pfArgs.val IN
        /\ val \in {JsNull, JsUndefined} => pfResult.value = TRUE
        /\ (val.kind = "string" /\ OnlyWhiteSpace(val.text)) =>
               pfResult.value = TRUE
        /\ (val.kind = "array" /\ val.items = <<>>) => pfResult.value = TRUE
        /\ (val.kind = "object" /\ val.keys = <<>>) => pfResult.value = TRUE
        /\ val \in {JsNumber(<<"0">>), JsBoolean(FALSE)} =>
               pfResult.value = FALSE
        /\ (val.kind = "string" /\ ~OnlyWhiteSpace(val.text)) =>
               pfResult.value = FALSE

\* a string of white space only, found empty
WitnessC23 ==
    /\ IsEmptyDone
    /\ pfArgs.val = JsString(<<" ", "nbsp", " ">>)
    /\ pfResult.value = TRUE

\* ---------------------------------------------------------------------------
\* formatChatTime(date)
\* ---------------------------------------------------------------------------

MaxBack == 8         \* how many days before the current day the date may lie

\* An instant is a calendar day, counted from 1970-01-01, and a minute of
\* that day, in local time without a change of the clock; the labels are
\* written by their readings: "zuo" "tian" yesterday, "xing" "qi" weekday,
\* "yue" month, "ri" day, "nian" year.
MinutesADay == 1440

\* the year, month and day of the month of a day number (Gregorian calendar)
Civil(dayNumber) ==
    LET z == dayNumber + 719468
        era == z \div 146097
        doe == z - era * 146097
        yoe == (doe - doe \div 1460 + doe \div 36524 - doe \div 146096) \div 365
        doy == doe - (365 * yoe + yoe \div 4 - yoe \div 100)
        mp == (5 * doy + 2) \div 153
        m == IF mp < 10 THEN mp + 3 ELSE mp - 9
    IN  [year |-> yoe + era * 400 + (IF m <= 2 THEN 1 ELSE 0),
         month |-> m,
         date |-> doy - (153 * mp + 2) \div 5 + 1]

\* d.day(): 0 for Sunday; 1970-01-01 was a Thursday
Weekday(dayNumber) == (dayNumber + 4) % 7

\* d.isSame(other, 'day') and d.isSame(other, 'year')
isSameDay(d, other) == d.day = other.day
isSameYear(d, other) == Civil(d.day).year = Civil(other.day).year

\* now.subtract(1, 'day')
subtractDay(t) == [t EXCEPT !.day = t.day - 1]

\* later.diff(earlier, 'day'): the whole periods of 24 hours between the
\* two instants, rounded towards zero
diffDays(later, earlier) ==
    LET span == (later.day * MinutesADay + later.minute)
                       - (earlier.day * MinutesADay + earlier.minute)
    IN  IF span >= 0 THEN span \div MinutesADay
        ELSE -((-span) \div MinutesADay)

TwoDigits(n) == PadStart(toString(n), 2, "0")

\* d.format('HH:mm'), d.format('MM月DD日'), d.format('YYYY年MM月DD日')
formatHHmm(d) ==
    TwoDigits(d.minute \div 60) \o <<":">> \o TwoDigits(d.minute % 60)
formatMMDD(d) ==
    TwoDigits(Civil(d.day).month) \o <<"yue">>
        \o TwoDigits(Civil(d.day).date) \o <<"ri">>
formatYYYYMMDD(d) ==
    PadStart(toString(Civil(d.day).year), 4, "0") \o <<"nian">> \o formatMMDD(d)

weekdays ==
    <<<<"xing", "qi", "ri">>, <<"xing", "qi", "yi">>, <<"xing", "qi", "er">>,
      <<"xing", "qi", "san">>, <<"xing", "qi", "si">>, <<"xing", "qi", "wu">>,
      <<"xing", "qi", "liu">>>>

formatChatTime(d, current) ==
    IF isSameDay(d, current) THEN formatHHmm(d)
    ELSE IF isSameDay(d, subtractDay(current))
    THEN <<"zuo", "tian", " ">> \o formatHHmm(d)
    ELSE LET daysDiff == diffDays(current, d) IN
        IF daysDiff >= 2 /\ daysDiff < 7 THEN weekdays[Weekday(d.day) + 1]
        ELSE IF isSameYear(d, current) THEN formatMMDD(d)
        ELSE formatYYYYMMDD(d)

\* the current day: 2023-05-15 (a Monday, as in the tests) and 2024-01-04
NowDays == {19492, 19726}
\* 00:00, 14:30 and 23:59
DayMinutes == {0, 870, 1439}

InitChatTime ==
    /\ pfName = "formatChatTime"
    /\ \E nowDay \in NowDays, back \in (-1)..MaxBack, m, n \in DayMinutes :
        pfArgs = [date |-> [day |-> nowDay - back, minute |-> m],
                  now |-> [day |-> nowDay, minute |-> n]]
    /\ pfResult = NoResult
    /\ DurationIdle /\ RetryIdle /\ ThrottleIdle /\ OthersIdle("pure")

FormatChatTimeCall ==
    /\ pfName = "formatChatTime"
    /\ pfResult = NoResult
    /\ pfResult' = Returned(formatChatTime(pfArgs.date, pfArgs.now))
    /\ UNCHANGED <<pfName, pfArgs>>
    /\ OthersUnchanged("pure")

SpecChatTime == InitChatTime /\ [][FormatChatTimeCall]_vars

\* C24 (as stated): for a date whose calendar day is 2 to 6 days before the
\* current calendar day, formatChatTime returns the name of the weekday of
\* the date, whatever the times of day.
ClaimC24_WeekdayWithinSevenDays ==
    (pfName = "formatChatTime" /\ pfResult # NoResult
        /\ pfArgs.now.day - pfArgs.date.day \in 2..6) =>
        /\ Len(pfResult.value) = 3
        /\ SubSeq(pfResult.value, 1, 2) = <<"xing", "qi">>
        /\ pfResult.value[3] =
               <<"ri", "yi", "er", "san", "si", "wu", "liu">>
                   [((pfArgs.date.day + 4) % 7) + 1]

\* ---------------------------------------------------------------------------
\* convertToDayjsParam(value)
\* ---------------------------------------------------------------------------

MaxDigits == 14      \* most digits of a number given to convertToDayjsParam

\* A number is kept as the text Number.prototype.toString gives for it: a
\* minus sign if negative, the digits, and a point and digits if it has a
\* fraction (the numbers here are below 1e21, so there is no exponent).
NaN == JsNumber(<<"N", "a", "N">>)

\* typeof val === 'number' && !isNaN(val)
isNumber(val) == val.kind = "number" /\ val # NaN

\* the index of the point in a literal, 0 if there is none
PointAt(literal) ==
    IF \E k \in 1..Len(literal) : literal[k] = "."
    THEN CHOOSE k \in 1..Len(literal) : literal[k] = "."
    ELSE 0

RECURSIVE StripZeros(_)
StripZeros(digits) ==
    IF Len(digits) > 1 /\ Head(digits) = "0" THEN StripZeros(Tail(digits))
    ELSE digits

\* value * 1000, on the literal: the point moves three places to the right
times1000(literal) ==
    LET neg == Head(literal) = "-"
        body == IF neg THEN Tail(literal) ELSE literal
        point == PointAt(body)
        int == IF point = 0 THEN body ELSE SubSeq(body, 1, point - 1)
        frac == IF point = 0 THEN <<>> ELSE SubSeq(body, point + 1, Len(body))
        moved == SubSeq(frac \o <<"0", "0", "0">>, 1, 3)
        rest == SubSeq(frac, 4, Len(frac))
        whole == StripZeros(int \o moved)
    IN  (IF neg /\ whole # <<"0">> THEN <<"-">> ELSE <<>>)
            \o whole \o (IF rest = <<>> THEN <<>> ELSE <<".">> \o rest)

\* !isNaN(new Date(value).getTime()) holds for every number of 13 characters
isMillisecondTimestamp(value) == isNumber(value) /\ Len(value.literal) = 13

convertToDayjsParam(value) ==
    IF isMillisecondTimestamp(value) THEN value
    ELSE IF isNumber(value) /\ Len(value.literal) = 10
    THEN JsNumber(times1000(value.literal))
    ELSE value

\* the digits the numbers are made of
SomeDigits ==
    <<"1", "6", "7", "3", "7", "4", "1", "8", "2", "9", "1", "2", "3", "4", "5">>

\* the number with n of these digits, the last f of them after the point
NumberOf(neg, n, f) ==
    JsNumber((IF neg THEN <<"-">> ELSE <<>>)
                 \o SubSeq(SomeDigits, 1, n - f)
                 \o (IF f = 0 THEN <<>>
                     ELSE <<".">> \o SubSeq(SomeDigits, n - f + 1, n)))

DayjsParams ==
    UNION {{NumberOf(neg, n, f) : neg \in BOOLEAN, f \in 0..Min(2, n - 1)} :
              n \in 1..MaxDigits}
        \cup {JsNumber(<<"1", "6", "7", "3", "7", "4", "0", "8", "0", "0">>),
              JsNumber(<<"1", "6", "7", "3", "7", "4", "0", "8", "0", "0",
                         "0", "0", "0">>),
              JsNumber(<<"0">>), NaN, Date(1),
              JsString(<<"2", "0", "2", "3", "-", "0", "1", "-", "1", "5">>),
              JsString(<<"1", "6", "7", "3", "7", "4", "0", "8", "0", "0">>)}

InitDayjsParam ==
    /\ pfName = "convertToDayjsParam"
    /\ pfArgs \in [value : DayjsParams]
    /\ pfResult = NoResult
    /\ DurationIdle /\ RetryIdle /\ ThrottleIdle /\ OthersIdle("pure")

ConvertToDayjsParamCall ==
    /\ pfName = "convertToDayjsParam"
    /\ pfResult = NoResult
    /\ pfResult' = Returned(convertToDayjsParam(pfArgs.value))
    /\ UNCHANGED <<pfName, pfArgs>>
    /\ OthersUnchanged("pure")

SpecDayjsParam == InitDayjsParam /\ [][ConvertToDayjsParamCall]_vars

\* a number written with exactly ten digits and nothing else
TenDigitNumber(value) ==
    /\ value.kind = "number"
    /\ Len(value.literal) = 10
    /\ \A k \in 1..10 : IsDigit(value.literal[k])

\* C25 (as stated): convertToDayjsParam returns value * 1000 exactly when
\* value is a number of ten digits, and returns every other value as it is:
\* a number of thirteen digits, every other number, every value that is not
\* a number.
ClaimC25_OnlyTenDigitNumbers ==
    (pfName = "convertToDayjsParam" /\ pfResult # NoResult) =>
        pfResult.value =
            IF TenDigitNumber(pfArgs.value)
            THEN JsNumber(pfArgs.value.literal \o <<"0", "0", "0">>)
            ELSE pfArgs.value

\* ---------------------------------------------------------------------------
\* getQueryStringify(params) and objectToQueryString(obj)
\* ---------------------------------------------------------------------------

MaxParams == 2       \* most entries of the object given to getQueryStringify

RECURSIVE JoinWith(_, _)
\* Array.prototype.join(separator)
JoinWith(parts, separator) ==
    IF parts = <<>> THEN <<>>
    ELSE IF Len(parts) = 1 THEN parts[1]
    ELSE parts[1] \o separator \o JoinWith(Tail(parts), separator)

RECURSIVE String(_)
\* String(value)
String(value) ==
    CASE value.kind = "string" -> value.text
      [] value.kind = "number" -> value.literal
      [] value.kind = "boolean" ->
            IF value.value THEN <<"t", "r", "u", "e">>
            ELSE <<"f", "a", "l", "s", "e">>
      [] value.kind = "null" -> <<"n", "u", "l", "l">>
      [] value.kind = "undefined" ->
            <<"u", "n", "d", "e", "f", "i", "n", "e", "d">>
      [] value.kind = "array" ->
            JoinWith([k \in 1..Len(value.items) |->
                         IF value.items[k].kind \in {"null", "undefined"}
                         THEN <<>> ELSE String(value.items[k])],
                     <<",">>)
      [] OTHER ->
            <<"[", "o", "b", "j", "e", "c", "t", " ",
              "O", "b", "j", "e", "c", "t", "]">>

\* the escape of a character that encodeURI and encodeURIComponent escape
Percent(c) ==
    CASE c = " " -> <<"%", "2", "0">>
      [] c = "\"" -> <<"%", "2", "2">>
      [] c = "[" -> <<"%", "5", "B">>
      [] c = "]" -> <<"%", "5", "D">>
      [] c = "{" -> <<"%", "7", "B">>
      [] c = "}" -> <<"%", "7", "D">>
      [] c = "," -> <<"%", "2", "C">>
      [] c = ":" -> <<"%", "3", "A">>
      [] c = "=" -> <<"%", "3", "D">>
      [] c = "&" -> <<"%", "2", "6">>
      [] OTHER -> <<c>>

\* encodeURIComponent: letters, digits and - _ . ! ~ * ' ( ) are kept
encodeURIComponent(text) == Join([k \in 1..Len(text) |-> Percent(text[k])])

\* encodeURI: keeps the reserved characters ; / ? : @ & = + $ , # as well
encodeURI(text) ==
    Join([k \in 1..Len(text) |->
             IF text[k] \in {",", ":", "=", "&"} THEN <<text[k]>>
             ELSE Percent(text[k])])

\* key=value of one entry, or one key=item for each item of an array
queryOfEntry(key, value) ==
    IF value.kind = "array"
    THEN JoinWith([k \in 1..Len(value.items) |->
                      encodeURIComponent(key) \o <<"=">>
                          \o encodeURIComponent(String(value.items[k]))],
                  <<"&">>)
    ELSE encodeURIComponent(key) \o <<"=">> \o encodeURIComponent(String(value))

\* the indices of the entries that the filter keeps, in order
Kept(obj) ==
    SelectSeq([k \in 1..Len(obj.keys) |-> k],
              LAMBDA k : obj.values[k].kind \notin {"undefined", "null"})

objectToQueryString(obj) ==
    JoinWith([j \in 1..Len(Kept(obj)) |->
                 queryOfEntry(obj.keys[Kept(obj)[j]], obj.values[Kept(obj)[j]])],
             <<"&">>)

getQueryStringify(params) ==
    IF params.kind \in {"null", "undefined"} THEN <<>>
    ELSE LET queryString == objectToQueryString(params) IN
        IF queryString # <<>> THEN <<"?">> \o queryString ELSE <<>>

\* the user object of the JSDoc and of the test
UserObject ==
    JsObject(<<<<"n", "a", "m", "e">>, <<"a", "g", "e">>>>,
             <<JsString(<<"J", "o", "h", "n">>), JsNumber(<<"3", "0">>)>>)

QueryKeys == <<<<"u", "s", "e", "r">>, <<"a", "c", "t", "i", "v", "e">>,
               <<"q">>, <<"t", "a", "g", "s">>>>

QueryValues ==
    {UserObject, JsObject(<<>>, <<>>), JsBoolean(TRUE), JsNull, JsUndefined,
     JsString(<<"J", "o", "h", "n">>), JsString(<<"a", " ", "b">>),
     JsNumber(<<"3", "0">>),
     JsArray(<<JsString(<<"j", "s">>), JsString(<<"t", "s">>)>>)}

\* objects of up to MaxParams entries, the keys in the order of QueryKeys
QueryParams ==
    {JsNull, JsUndefined}
        \cup UNION {{JsObject([k \in 1..n |-> QueryKeys[k]], values) :
                        values \in [1..n -> QueryValues]} : n \in 0..MaxParams}

InitQueryStringify ==
    /\ pfName = "getQueryStringify"
    /\ pfArgs \in [params : QueryParams]
    /\ pfResult = NoResult
    /\ DurationIdle /\ RetryIdle /\ ThrottleIdle /\ OthersIdle("pure")

GetQueryStringifyCall ==
    /\ pfName = "getQueryStringify"
    /\ pfResult = NoResult
    /\ pfResult' = Returned(getQueryStringify(pfArgs.params))
    /\ UNCHANGED <<pfName, pfArgs>>
    /\ OthersUnchanged("pure")

SpecQueryStringify == InitQueryStringify /\ [][GetQueryStringifyCall]_vars

RECURSIVE JSONStringify(_)
\* JSON.stringify(value) of a string, number, boolean, null, array or object
JSONStringify(value) ==
    CASE value.kind = "string" -> <<"\"">> \o value.text \o <<"\"">>
      [] value.kind = "number" -> value.literal
      [] value.kind = "array" ->
            <<"[">> \o JoinWith([k \in 1..Len(value.items) |->
                                    JSONStringify(value.items[k])], <<",">>)
                    \o <<"]">>
      [] value.kind = "object" ->
            <<"{">> \o JoinWith([k \in 1..Len(value.keys) |->
                                    <<"\"">> \o value.keys[k] \o <<"\"", ":">>
                                        \o JSONStringify(value.values[k])],
                                <<",">>)
                    \o <<"}">>
      [] OTHER -> String(value)

\* the entries of params whose value is a plain object
ObjectEntries(params) ==
    IF params.kind # "object" THEN {}
    ELSE {k \in 1..Len(params.keys) : params.values[k].kind = "object"}

\* C26: a parameter whose value is an object is serialised as key= followed
\* by the URI-encoded JSON text of the object; { user: { name: 'John',
\* age: 30 }, active: true } gives ?user=<encoded JSON of user>&active=true.
ClaimC26_ObjectAsJson ==
    (pfName = "getQueryStringify" /\ pfResult # NoResult) =>
        /\ \A k \in ObjectEntries(pfArgs.params) :
              LET json == JSONStringify(pfArgs.params.values[k])
                  key == encodeURIComponent(pfArgs.params.keys[k]) \o <<"=">>
              IN  \/ Includes(pfResult.value, key \o encodeURI(json))
                  \/ Includes(pfResult.value, key \o encodeURIComponent(json))
        /\ pfArgs.params = JsObject(<<QueryKeys[1], QueryKeys[2]>>,
                                    <<UserObject, JsBoolean(TRUE)>>) =>
              pfResult.value
                  = <<"?", "u", "s", "e", "r", "=">>
                        \o encodeURI(JSONStringify(UserObject))
                        \o <<"&", "a", "c", "t", "i", "v", "e", "=",
                             "t", "r", "u", "e">>

\* ---------------------------------------------------------------------------
\* retry: the order of the calls of fn and of the waits
\* ---------------------------------------------------------------------------

\* the places of the history where fn is called
CallsAt == {j \in 1..Len(rTrace) : rTrace[j].ev = "call"}

\* C27: consecutive calls of fn never overlap and are separated by one wait
\* of delayMs: a call starts only after the call before it has failed and
\* delayMs milliseconds have then gone by, and after the last failed call
\* retry rejects without a wait.
TheoremC27_OneWaitBetweenCalls ==
    /\ \A j \in CallsAt :
          /\ j < Len(rTrace) => rTrace[j + 1].ev \in {"ok", "fail"}
          /\ j > 1 =>
                /\ j > 4
                /\ rTrace[j - 3].ev = "fail"
                /\ rTrace[j - 2].ev = "delay"
                /\ rTrace[j - 1].ev = "resume"
                /\ rTrace[j - 1].waited >= delayMs
                /\ rTrace[j - 4].ev = "call"
    /\ \A j \in 1..Len(rTrace) :
          rTrace[j].ev \in {"ok", "fail"} => (j > 1 /\ rTrace[j - 1].ev = "call")
    /\ rPc = "rejected" =>
          (rTrace = <<>> \/ rTrace[Len(rTrace)].ev = "fail")
    /\ rPc = "delay" <=>
          (rTrace # <<>> /\ rTrace[Len(rTrace)].ev = "delay")

\* three calls failed 2 ms and 3 ms apart, and retry rejected after the third
WitnessC27 ==
    /\ rPc = "rejected" /\ retries = 2 /\ delayMs = 2
    /\ Len(rTrace) = 10
    /\ rTrace[4] = [ev |-> "resume", waited |-> 2]
    /\ rTrace[8] = [ev |-> "resume", waited |-> 3]
    /\ rTrace[10].ev = "fail"

\* the rejection of retry is the failure of a call of fn: the Error fn
\* rejected with, or the Error made of the value it rejected with
FromFailedCall(reason) ==
    \E k \in 1..Len(rCalls) :
        /\ ~rCalls[k].ok
        /\ reason = toError(rCalls[k].error)

\* C30: retry calls fn at least once and, whenever it rejects, rejects with
\* an Error that comes from a failed call of fn, for every value of retries,
\* 0 and negative values included.
ClaimC30_AtLeastOneCall ==
    (rPc \in {"resolved", "rejected"}) =>
        /\ Len(rCalls) >= 1
        /\ rPc = "rejected" =>
              /\ rOutcome.type = "Error"
              /\ FromFailedCall(rOutcome)

\* C28: when a task of parallel rejects, parallel rejects, and no task that
\* had not been started at that moment is started afterwards.
ClaimC28_NoStartAfterFailure ==
    \A k \in 1..Len(pLog) :
        pLog[k].type = "fail" =>
            /\ pSettled = "rejected"
            /\ \A j \in (k + 1)..Len(pLog) : pLog[j].type # "start"

\* ---------------------------------------------------------------------------
\* deepClone on arguments that may hold a cycle
\* ---------------------------------------------------------------------------

\* Every call of deepClone on an object takes a frame of the call stack until
\* it returns; the engine throws a RangeError when the stack is used up.  The
\* stack here has room for more frames than any argument without a cycle
\* needs.
MaxStack == MaxObjects + 2

RangeError == [thrown |-> TRUE, error |-> "RangeError"]

RECURSIVE deepCloneWithin(_, _, _)
RECURSIVE cloneItemsWithin(_, _, _, _)

\* obj.map(...) and Object.keys(obj).forEach(...) with frames of the stack
\* left: an exception of one call ends the iteration
cloneItemsWithin(heap, items, k, frames) ==
    IF k = 0 THEN [thrown |-> FALSE, heap |-> heap, items |-> <<>>]
    ELSE LET before == cloneItemsWithin(heap, items, k - 1, frames) IN
        IF before.thrown THEN RangeError
        ELSE LET c == deepCloneWithin(before.heap, items[k], frames) IN
            IF c.thrown THEN RangeError
            ELSE [thrown |-> FALSE, heap |-> c.heap,
                  items |-> Append(before.items, c.value)]

\* deepClone called with frames of the stack left
deepCloneWithin(heap, v, frames) ==
    IF frames = 0 THEN RangeError
    ELSE IF ~IsRef(v) THEN [thrown |-> FALSE, heap |-> heap, value |-> v]
    ELSE LET obj == heap[v.ref]
             made(object) == [thrown |-> FALSE,
                              heap |-> Alloc(heap, object).heap,
                              value |-> Alloc(heap, object).value]
         IN
        CASE obj.kind = "date" -> made(Date(obj.time))
          [] obj.kind = "regexp" -> made(RegExp(obj.source, obj.flags))
          [] obj.kind = "array" ->
                LET c == cloneItemsWithin(heap, obj.items, Len(obj.items),
                                          frames - 1)
                IN  IF c.thrown THEN RangeError
                    ELSE [thrown |-> FALSE,
                          heap |-> Alloc(c.heap, Array(c.items)).heap,
                          value |-> Alloc(c.heap, Array(c.items)).value]
          [] OTHER ->
                LET c == cloneItemsWithin(heap, obj.values, Len(obj.values),
                                          frames - 1)
                IN  IF c.thrown THEN RangeError
                    ELSE [thrown |-> FALSE,
                          heap |-> Alloc(c.heap,
                                         PlainObject(obj.keys, c.items)).heap,
                          value |-> Alloc(c.heap,
                                          PlainObject(obj.keys, c.items)).value]

\* The arguments: objects that may refer to any object, themselves included;
\* two objects are enough for every shape of cycle.
CyclicHeaps ==
    UNION {[1..n -> ObjectsAt(0, n)] : n \in 1..(MaxObjects - 1)}

InitDeepCloneCyclic ==
    /\ dcPc = "call"
    /\ dcHeap \in CyclicHeaps
    /\ dcRoot = Ref(1)
    /\ dcClone = NotCloned
    /\ dcBefore = dcHeap
    /\ DurationIdle /\ RetryIdle /\ ThrottleIdle /\ OthersIdle("deepClone")

\* deepClone(obj) returns, or the RangeError of the engine leaves it
DeepCloneCyclicCall ==
    /\ dcPc = "call"
    /\ LET c == deepCloneWithin(dcHeap, dcRoot, MaxStack) IN
        IF c.thrown
        THEN /\ dcPc' = "thrown"
             /\ dcClone' = [type |-> "RangeError"]
             /\ dcHeap' = dcHeap
        ELSE /\ dcPc' = "cloned"
             /\ dcClone' = c.value
             /\ dcHeap' = c.heap
    /\ UNCHANGED <<dcRoot, dcBefore>>
    /\ OthersUnchanged("deepClone")

SpecDeepCloneCyclic == InitDeepCloneCyclic /\ [][DeepCloneCyclicCall]_vars

\* C29: deepClone returns a value for every argument, an object or an array
\* reachable from itself included.
ClaimC29_ReturnsOnCycles ==
    dcPc # "call" => (dcPc = "cloned" /\ dcClone # [type |-> "RangeError"])

====
